---- MODULE Spec2Model ----
(***************************************************************************)
(* Model of the editor session of the note-taking application:             *)
(*   src/src/ui/widgets/clickable_text_edit.py  (ClickableTextEdit)        *)
(*   src/src/ui/main_window.py                  (MainWindow)               *)
(*   src/src/services/file_manager.py           (FileManager)              *)
(*   src/src/utils/link_utils.py, file_utils.py                            *)
(*                                                                         *)
(* Texts and paths are sequences of one-character strings.  Offsets into a *)
(* text are 0-based, as in the Python source; Char(t, i) reads offset i.   *)
(* Every handler of the source is an operator from a session record (the   *)
(* fields of the widget, of the window and the note storage) to the        *)
(* session record the handler leaves behind; the actions install it.       *)
(***************************************************************************)
EXTENDS Integers, Sequences, FiniteSets, TLC

VARIABLES
    text,              \* ClickableTextEdit.toPlainText()
    cursor,            \* ClickableTextEdit.textCursor().position()
    undo_stack,        \* ClickableTextEdit.undo_stack
    redo_stack,        \* ClickableTextEdit.redo_stack
    is_undoing,        \* ClickableTextEdit.is_undoing
    is_read_only,      \* MainWindow.is_read_only
    original_content,  \* MainWindow.original_content
    current_file,      \* MainWindow.current_file (None is the empty path)
    files,             \* note storage: path -> content, for the existing notes
    blocks,            \* the document of the editor as its blocks (lines)
    callout_blocks,    \* ClickableTextEdit.callout_blocks
    ai_response_blocks,        \* ClickableTextEdit.ai_response_blocks
    folded_callouts,           \* ClickableTextEdit.folded_callouts
    manually_toggled_callouts, \* ClickableTextEdit.manually_toggled_callouts
    visible,           \* QTextBlock.isVisible() of every block
    internal_connected,        \* on_internal_text_changed is connected to textChanged
    hist               \* history of the session, kept by SpecHist only:
                       \*   save_failed  the last storage write of the last handler failed
                       \*   unsaved      the content that write was to store
                       \*   unsaved_path the note it was to store it in
                       \*   loaded       the content installed by the last file load
                       \*   edited       a key press has changed the text since that load
                       \* by SpecFiles:
                       \*   written      the paths of the files the last handler
                       \*                opened for writing
                       \*   tree_ops     how many renames and drops the tree has seen
                       \*   moved        <<old_path, new_path>> of the last rename or
                       \*                drop that succeeded
                       \* by SpecInsert:
                       \*   response     the parts of the LLM response the note was
                       \*                formatted from
                       \* and by SpecBlocks:
                       \*   unfolded     the block number of the '> thinking...' header
                       \*                the user unfolded last, as the lines put in
                       \*                above it have moved it; NoStart when there is
                       \*                none or its lines may have been touched

\* the block state of the editor, followed by SpecBlocks only
blockvars == <<blocks, callout_blocks, ai_response_blocks, folded_callouts,
               manually_toggled_callouts, visible, internal_connected>>

\* the session state, followed by Spec and SpecHist
sessionvars == <<text, cursor, undo_stack, redo_stack, is_undoing,
                 original_content, current_file, files>>

vars == <<text, cursor, undo_stack, redo_stack, is_undoing, is_read_only,
          original_content, current_file, files, hist, blocks, callout_blocks,
          ai_response_blocks, folded_callouts, manually_toggled_callouts,
          visible, internal_connected>>

----------------------------------------------------------------------------
(* Bounds of the model *)

\* a key that inserts is explored only while the text is shorter than this
MaxLen == 2

\* ClickableTextEdit.max_undo_items, scaled down from the source's 100 so
\* that eviction of the oldest snapshot is reached
max_undo_items == 3

----------------------------------------------------------------------------
(* Characters, texts, paths *)

None == <<>>

\* current_callout_start = None / ai_response_start = None, for block numbers
NoStart == -1

NoHistory ==
    [save_failed |-> FALSE, unsaved |-> <<>>, unsaved_path |-> None,
     loaded |-> <<>>, edited |-> FALSE, unfolded |-> NoStart, written |-> {},
     tree_ops |-> 0, moved |-> <<>>, response |-> <<>>]

Whitespace == {" ", "\n", "\t"}

Char(t, i) == t[i + 1]

\* Python slice t[a:b] for 0 <= a, b
Slice(t, a, b) == IF b <= a THEN <<>> ELSE SubSeq(t, a + 1, b)

Min(a, b) == IF a <= b THEN a ELSE b

MdExt == <<".", "m", "d">>

HomePath == <<"h", "o", "m", "e">> \o MdExt

LinkA == <<"[", "[", "a", "]", "]">>

----------------------------------------------------------------------------
(* Link utilities: src/src/utils/link_utils.py, src/src/utils/file_utils.py *)

\* offset of the first "]" at or after offset j, Len(t) when there is none:
\* where the greedy run [^\]]+ of LINK_PATTERN stops
RECURSIVE FirstClose(_, _)
FirstClose(t, j) ==
    IF j >= Len(t) THEN Len(t)
    ELSE IF Char(t, j) = "]" THEN j
    ELSE FirstClose(t, j + 1)

\* LINK_PATTERN = \[\[([^\]]+)\]\] matches at offset i
MatchAt(t, i) ==
    /\ i + 1 < Len(t)
    /\ Char(t, i) = "["
    /\ Char(t, i + 1) = "["
    /\ LET j == FirstClose(t, i + 2)
       IN /\ j > i + 2
          /\ j + 1 < Len(t)
          /\ Char(t, j + 1) = "]"

MatchEnd(t, i) == FirstClose(t, i + 2) + 2

\* a variant of the scan that goes on one character after the start of a match
\* instead of at its end
RECURSIVE FindIter_overlapping(_, _)
FindIter_overlapping(t, i) ==
    IF i >= Len(t) THEN <<>>
    ELSE IF MatchAt(t, i)
         THEN <<<<i, MatchEnd(t, i), Slice(t, i + 2, MatchEnd(t, i) - 2)>>>>
              \o FindIter_overlapping(t, i + 1)
         ELSE FindIter_overlapping(t, i + 1)

\* re.finditer(LINK_PATTERN, t) from offset i on: tuples <<start, end, group(1)>>
RECURSIVE FindIter(_, _)
FindIter(t, i) ==
    IF i >= Len(t) THEN <<>>
    ELSE IF MatchAt(t, i)
         THEN <<<<i, MatchEnd(t, i), Slice(t, i + 2, MatchEnd(t, i) - 2)>>>>
              \o FindIter(t, MatchEnd(t, i))
         ELSE FindIter(t, i + 1)

find_all_links(t) == FindIter(t, 0)

\* a variant of the hit test whose spans end before their end offset
RECURSIVE HitLoop_exclusiveEnd(_, _, _)
HitLoop_exclusiveEnd(position, links, k) ==
    IF k > Len(links) THEN <<>>
    ELSE IF links[k][1] <= position /\ position < links[k][2]
         THEN <<links[k][3]>>
         ELSE HitLoop_exclusiveEnd(position, links, k + 1)

\* the loop of is_position_in_link over the links, from link k on:
\* <<link_text>> for the first link with start <= position <= end, <<>> (None)
\* when there is none
RECURSIVE HitLoop(_, _, _)
HitLoop(position, links, k) ==
    IF k > Len(links) THEN <<>>
    ELSE IF links[k][1] <= position /\ position <= links[k][2]
         THEN <<links[k][3]>>
         ELSE HitLoop(position, links, k + 1)

is_position_in_link(position, links) == HitLoop(position, links, 1)

\* a variant of the loop that leaves out the text after the last match
RECURSIVE RemoveLoop_dropsTail(_, _, _, _, _, _)
RemoveLoop_dropsTail(t, ms, k, res, pos, last_end) ==
    IF k > Len(ms)
    THEN <<res, pos>>
    ELSE LET m    == ms[k]
             res1 == res \o Slice(t, last_end, m[1])
             res2 == res1 \o m[3]
         IN RemoveLoop_dropsTail(t, ms, k + 1, res2,
                       Append(pos, [start |-> Len(res1), end |-> Len(res2),
                                    text |-> m[3],
                                    original_start |-> m[1],
                                    original_end |-> m[2]]),
                       m[2])

\* a variant of the loop that records a link at its offset in the raw text
RECURSIVE RemoveLoop_rawOffsets(_, _, _, _, _, _)
RemoveLoop_rawOffsets(t, ms, k, res, pos, last_end) ==
    IF k > Len(ms)
    THEN <<res \o Slice(t, last_end, Len(t)), pos>>
    ELSE LET m    == ms[k]
             res1 == res \o Slice(t, last_end, m[1])
             res2 == res1 \o m[3]
         IN RemoveLoop_rawOffsets(t, ms, k + 1, res2,
                       Append(pos, [start |-> m[1], end |-> m[1] + Len(m[3]),
                                    text |-> m[3],
                                    original_start |-> m[1],
                                    original_end |-> m[2]]),
                       m[2])

\* the loop of remove_link_brackets over the matches ms, from match k on, with
\* the accumulators result_text (res), link_positions (pos) and last_end
RECURSIVE RemoveLoop(_, _, _, _, _, _)
RemoveLoop(t, ms, k, res, pos, last_end) ==
    IF k > Len(ms)
    THEN <<res \o Slice(t, last_end, Len(t)), pos>>
    ELSE LET m    == ms[k]
             res1 == res \o Slice(t, last_end, m[1])
             res2 == res1 \o m[3]
         IN RemoveLoop(t, ms, k + 1, res2,
                       Append(pos, [start |-> Len(res1), end |-> Len(res2),
                                    text |-> m[3],
                                    original_start |-> m[1],
                                    original_end |-> m[2]]),
                       m[2])

\* <<display text, link positions>>
remove_link_brackets(t) == RemoveLoop(t, FindIter(t, 0), 1, <<>>, <<>>, 0)

create_wiki_link(t) == <<"[", "[">> \o t \o <<"]", "]">>

RECURSIVE LStrip(_)
LStrip(t) ==
    IF t # <<>> /\ Head(t) \in Whitespace THEN LStrip(Tail(t)) ELSE t

RECURSIVE RStrip(_)
RStrip(t) ==
    IF t # <<>> /\ t[Len(t)] \in Whitespace
    THEN RStrip(SubSeq(t, 1, Len(t) - 1)) ELSE t

\* re.sub(r'\s+', '_', t)
RECURSIVE SubWhitespace(_)
SubWhitespace(t) ==
    IF t = <<>> THEN <<>>
    ELSE IF Head(t) \in Whitespace
         THEN <<"_">> \o SubWhitespace(LStrip(t))
         ELSE <<Head(t)>> \o SubWhitespace(Tail(t))

sanitize_filename(name) == SubWhitespace(RStrip(LStrip(name)))

\* filename.lower().endswith('.md')
is_markdown_file(name) ==
    /\ Len(name) >= 3
    /\ name[Len(name) - 2] = "."
    /\ name[Len(name) - 1] \in {"m", "M"}
    /\ name[Len(name)] \in {"d", "D"}

add_markdown_extension(name) ==
    IF is_markdown_file(name) THEN name ELSE name \o MdExt

\* str.split('/'): the parts of t, in order
RECURSIVE SplitSlash(_, _)
SplitSlash(t, part) ==
    IF t = <<>> THEN <<part>>
    ELSE IF Head(t) = "/" THEN <<part>> \o SplitSlash(Tail(t), <<>>)
    ELSE SplitSlash(Tail(t), Append(part, Head(t)))

\* os.path.join of the parts under the notes directory (paths are kept
\* relative to it): empty components add nothing
RECURSIVE JoinPath(_)
JoinPath(parts) ==
    IF parts = <<>> THEN <<>>
    ELSE IF Len(parts) = 1 THEN parts[1]
    ELSE IF parts[1] = <<>> THEN JoinPath(Tail(parts))
    ELSE parts[1] \o <<"/">> \o JoinPath(Tail(parts))

SanitizeParts(parts) == [k \in 1..Len(parts) |-> sanitize_filename(parts[k])]

link_to_filepath(link_text) ==
    LET sp == SanitizeParts(SplitSlash(link_text, <<>>))
    IN JoinPath([sp EXCEPT ![Len(sp)] = sp[Len(sp)] \o MdExt])

\* '/'.join(parts)
RECURSIVE JoinSlash(_)
JoinSlash(parts) ==
    IF parts = <<>> THEN <<>>
    ELSE IF Len(parts) = 1 THEN parts[1]
    ELSE parts[1] \o <<"/">> \o JoinSlash(Tail(parts))

\* str.endswith
EndsWith(t, suffix) ==
    /\ Len(t) >= Len(suffix)
    /\ SubSeq(t, Len(t) - Len(suffix) + 1, Len(t)) = suffix

\* str.replace('_', ' ')
UnderscoresToSpaces(t) == [k \in 1..Len(t) |-> IF t[k] = "_" THEN " " ELSE t[k]]

\* str.replace(old, new) for a non-empty old: every occurrence of old, found
\* from left to right without overlap, becomes new
RECURSIVE Replace(_, _, _)
Replace(t, old, new) ==
    IF Len(t) < Len(old) THEN t
    ELSE IF SubSeq(t, 1, Len(old)) = old
         THEN new \o Replace(SubSeq(t, Len(old) + 1, Len(t)), old, new)
         ELSE <<Head(t)>> \o Replace(Tail(t), old, new)

\* os.path.normpath of a path below the notes directory: empty and '.'
\* components are dropped (the texts explored give no '..' component)
normpath(path) ==
    JoinSlash(SelectSeq(SplitSlash(path, <<>>),
                        LAMBDA part : part # <<>> /\ part # <<".">>))

\* os.path.dirname and os.path.basename
RECURSIVE LastSlash(_, _)
LastSlash(path, k) ==
    IF k = 0 THEN 0 ELSE IF path[k] = "/" THEN k ELSE LastSlash(path, k - 1)

dirname(path) ==
    LET k == LastSlash(path, Len(path))
    IN IF k <= 1 THEN <<>> ELSE SubSeq(path, 1, k - 1)

basename(path) == SubSeq(path, LastSlash(path, Len(path)) + 1, Len(path))

\* filepath_to_link without the underscore-to-space step
filepath_to_link_keepsUnderscores(file_path) ==
    LET rel_path == normpath(file_path)
    IN IF EndsWith(rel_path, MdExt)
       THEN SubSeq(rel_path, 1, Len(rel_path) - 3) ELSE rel_path

\* filepath_to_link; paths are kept relative to the notes directory, so
\* os.path.relpath leaves the normalised path
filepath_to_link(file_path) ==
    LET rel_path == normpath(file_path)
        stem     == IF EndsWith(rel_path, MdExt)
                    THEN SubSeq(rel_path, 1, Len(rel_path) - 3) ELSE rel_path
        parts    == SplitSlash(stem, <<>>)
    IN JoinSlash([parts EXCEPT ![Len(parts)] = UnderscoresToSpaces(@)])

\* the loop of update_link_references over the matches ms of the content,
\* from match k on
RECURSIVE UpdateLoop(_, _, _, _, _)
UpdateLoop(ms, k, updated_content, old_path, new_path) ==
    IF k > Len(ms) THEN updated_content
    ELSE IF normpath(link_to_filepath(ms[k][3])) = normpath(old_path)
         THEN UpdateLoop(ms, k + 1,
                         Replace(updated_content, create_wiki_link(ms[k][3]),
                                 create_wiki_link(filepath_to_link(new_path))),
                         old_path, new_path)
         ELSE UpdateLoop(ms, k + 1, updated_content, old_path, new_path)

update_link_references(content, old_path, new_path) ==
    UpdateLoop(FindIter(content, 0), 1, content, old_path, new_path)

\* the path at which FileManager.create_note_from_link creates the note
create_note_from_link_path(link_text) ==
    LET sp == SanitizeParts(SplitSlash(link_text, <<>>))
    IN JoinPath([sp EXCEPT ![Len(sp)] = add_markdown_extension(sp[Len(sp)])])

----------------------------------------------------------------------------
(* The session record a handler works on *)

S == [text |-> text, cursor |-> cursor,
      undo_stack |-> undo_stack, redo_stack |-> redo_stack,
      is_undoing |-> is_undoing, is_read_only |-> is_read_only,
      original_content |-> original_content, current_file |-> current_file,
      files |-> files, hist |-> [hist EXCEPT !.save_failed = FALSE, !.unsaved = <<>>,
                            !.unsaved_path = None, !.written = {}]]

Top(stack) == stack[Len(stack)]

Pop(stack) == SubSeq(stack, 1, Len(stack) - 1)

----------------------------------------------------------------------------
(* Date utilities: src/src/utils/date_utils.py *)

\* str(n) for a natural number n
RECURSIVE Digits(_)
Digits(n) ==
    LET last == <<"0", "1", "2", "3", "4", "5", "6", "7", "8", "9">>[(n % 10) + 1]
    IN IF n < 10 THEN <<last>> ELSE Digits(n \div 10) \o <<last>>

\* strftime %m and %d: two digits, zero-padded
Pad2(n) == IF n < 10 THEN <<"0">> \o Digits(n) ELSE Digits(n)

\* strftime %A and %B in the C locale
WeekdayNames ==
    << <<"M", "o", "n", "d", "a", "y">>,
       <<"T", "u", "e", "s", "d", "a", "y">>,
       <<"W", "e", "d", "n", "e", "s", "d", "a", "y">>,
       <<"T", "h", "u", "r", "s", "d", "a", "y">>,
       <<"F", "r", "i", "d", "a", "y">>,
       <<"S", "a", "t", "u", "r", "d", "a", "y">>,
       <<"S", "u", "n", "d", "a", "y">> >>

MonthNames ==
    << <<"J", "a", "n", "u", "a", "r", "y">>,
       <<"F", "e", "b", "r", "u", "a", "r", "y">>,
       <<"M", "a", "r", "c", "h">>,
       <<"A", "p", "r", "i", "l">>,
       <<"M", "a", "y">>,
       <<"J", "u", "n", "e">>,
       <<"J", "u", "l", "y">>,
       <<"A", "u", "g", "u", "s", "t">>,
       <<"S", "e", "p", "t", "e", "m", "b", "e", "r">>,
       <<"O", "c", "t", "o", "b", "e", "r">>,
       <<"N", "o", "v", "e", "m", "b", "e", "r">>,
       <<"D", "e", "c", "e", "m", "b", "e", "r">> >>

IsLeap(year) == year % 4 = 0 /\ (year % 100 # 0 \/ year % 400 = 0)

DaysInMonth(year, month) ==
    IF month = 2 THEN (IF IsLeap(year) THEN 29 ELSE 28)
    ELSE IF month \in {4, 6, 9, 11} THEN 30 ELSE 31

RECURSIVE DaysBeforeMonth(_, _)
DaysBeforeMonth(year, month) ==
    IF month = 1 THEN 0
    ELSE DaysBeforeMonth(year, month - 1) + DaysInMonth(year, month - 1)

\* datetime.toordinal: day 1 is 0001-01-01
ToOrdinal(date) ==
    LET y == date.year - 1
    IN y * 365 + (y \div 4) - (y \div 100) + (y \div 400)
       + DaysBeforeMonth(date.year, date.month) + date.day

\* datetime.weekday: Monday is 0
Weekday(date) == (ToOrdinal(date) + 6) % 7

\* an ordinal suffix that looks at the last digit only
get_ordinal_suffix_lastDigitOnly(day) ==
    IF day % 10 = 1 THEN <<"s", "t">>
    ELSE IF day % 10 = 2 THEN <<"n", "d">>
    ELSE IF day % 10 = 3 THEN <<"r", "d">>
    ELSE <<"t", "h">>

get_ordinal_suffix(day) ==
    IF 10 <= day % 100 /\ day % 100 <= 20 THEN <<"t", "h">>
    ELSE IF day % 10 = 1 THEN <<"s", "t">>
    ELSE IF day % 10 = 2 THEN <<"n", "d">>
    ELSE IF day % 10 = 3 THEN <<"r", "d">>
    ELSE <<"t", "h">>

format_journal_date(date) ==
    LET day_of_week == WeekdayNames[Weekday(date) + 1]
        day_num     == Digits(date.day)
        month_name  == MonthNames[date.month]
        year_str    == Digits(date.year)
        suffix      == get_ordinal_suffix(date.day)
    IN day_of_week \o <<" ">> \o day_num \o suffix \o <<" ">> \o month_name
       \o <<" ">> \o year_str

\* <<year, month, day>> as strings
get_journal_path_components(date) ==
    <<Digits(date.year), Pad2(date.month), Pad2(date.day)>>

create_journal_header(date) ==
    <<"#", " ">> \o format_journal_date(date) \o <<"\n", "\n">>

----------------------------------------------------------------------------
(* ClickableTextEdit: the undo/redo engine *)

\* save_undo_state that leaves redo_stack alone when it pushes
save_undo_state_keepsRedo(s) ==
    IF s.is_undoing THEN s
    ELSE LET current_state == [text |-> s.text, cursor_position |-> s.cursor]
         IN IF s.undo_stack # <<>> /\ Top(s.undo_stack).text = current_state.text
            THEN s
            ELSE LET pushed  == Append(s.undo_stack, current_state)
                     limited == IF Len(pushed) > max_undo_items
                                THEN Tail(pushed) ELSE pushed
                 IN [s EXCEPT !.undo_stack = limited]

\* save_undo_state that compares the whole snapshot, cursor included
save_undo_state_comparesCursor(s) ==
    IF s.is_undoing THEN s
    ELSE LET current_state == [text |-> s.text, cursor_position |-> s.cursor]
         IN IF s.undo_stack # <<>> /\ Top(s.undo_stack) = current_state
            THEN s
            ELSE LET pushed  == Append(s.undo_stack, current_state)
                     limited == IF Len(pushed) > max_undo_items
                                THEN Tail(pushed) ELSE pushed
                 IN [s EXCEPT !.undo_stack = limited, !.redo_stack = <<>>]

\* save_undo_state without the check for an unchanged text
save_undo_state_pushesUnchanged(s) ==
    IF s.is_undoing THEN s
    ELSE LET current_state == [text |-> s.text, cursor_position |-> s.cursor]
             pushed  == Append(s.undo_stack, current_state)
             limited == IF Len(pushed) > max_undo_items
                        THEN Tail(pushed) ELSE pushed
         IN [s EXCEPT !.undo_stack = limited, !.redo_stack = <<>>]

\* save_undo_state that drops the newest snapshot on overflow
save_undo_state_evictsNewest(s) ==
    IF s.is_undoing THEN s
    ELSE LET current_state == [text |-> s.text, cursor_position |-> s.cursor]
         IN IF s.undo_stack # <<>> /\ Top(s.undo_stack).text = current_state.text
            THEN s
            ELSE LET pushed  == Append(s.undo_stack, current_state)
                     limited == IF Len(pushed) > max_undo_items
                                THEN Pop(pushed) ELSE pushed
                 IN [s EXCEPT !.undo_stack = limited, !.redo_stack = <<>>]

save_undo_state(s) ==
    IF s.is_undoing THEN s
    ELSE LET current_state == [text |-> s.text, cursor_position |-> s.cursor]
         IN IF s.undo_stack # <<>> /\ Top(s.undo_stack).text = current_state.text
            THEN s
            ELSE LET pushed  == Append(s.undo_stack, current_state)
                     limited == IF Len(pushed) > max_undo_items
                                THEN Tail(pushed) ELSE pushed
                 IN [s EXCEPT !.undo_stack = limited, !.redo_stack = <<>>]

\* MainWindow.format_links changes character formats only: the text is left
\* as it is and the cursor is put back where it was; the textChanged signal
\* is disconnected while it runs
format_links(s) == s

\* MainWindow.format_for_read_only: the editor text is replaced by the
\* bracket-stripped text, inserted through a cursor of the document (the
\* widget's cursor ends up behind the inserted text); textChanged is
\* disconnected while it runs
format_for_read_only(s) ==
    LET display_text == remove_link_brackets(s.text)[1]
    IN [s EXCEPT !.text = display_text, !.cursor = Len(display_text)]

\* on_text_changed that takes no snapshot
on_text_changed_noSnapshot(s) ==
    IF s.current_file = None \/ s.is_read_only THEN s
    ELSE format_links([s EXCEPT !.original_content = s.text])

\* MainWindow.on_text_changed, the slot connected to the editor's textChanged
on_text_changed(s) ==
    IF s.current_file = None \/ s.is_read_only THEN s
    ELSE LET s1 == [s EXCEPT !.original_content = s.text]
             s2 == IF ~s1.is_undoing THEN save_undo_state(s1) ELSE s1
         IN format_links(s2)

\* QTextEdit.setPlainText: new document, cursor at the start, textChanged fires
QTextEdit_setPlainText(s, t) ==
    on_text_changed([s EXCEPT !.text = t, !.cursor = 0])

\* ClickableTextEdit.setPlainText (the override)
setPlainText(s, t) ==
    LET s1 == QTextEdit_setPlainText(s, t)
    IN IF ~s1.is_undoing /\ ~s1.is_read_only
          /\ (s1.undo_stack = <<>> \/ Top(s1.undo_stack).text # t)
       THEN save_undo_state(s1)
       ELSE s1

\* the tail of undo and redo that never drops the is_undoing flag
ApplyRestored_flagStays(s, state) ==
    LET s1 == setPlainText([s EXCEPT !.is_undoing = TRUE], state.text)
        s2 == [s1 EXCEPT !.cursor = Min(state.cursor_position, Len(state.text))]
    IN IF s2.is_read_only THEN format_for_read_only(s2) ELSE format_links(s2)

\* the tail shared by undo and redo: install the state, clamp the cursor,
\* drop the flag, re-format
ApplyRestored(s, state) ==
    LET s1 == setPlainText([s EXCEPT !.is_undoing = TRUE], state.text)
        s2 == [s1 EXCEPT !.cursor = Min(state.cursor_position, Len(state.text)),
                         !.is_undoing = FALSE]
    IN IF s2.is_read_only THEN format_for_read_only(s2) ELSE format_links(s2)

\* undo that pops whenever the stack is not empty
undo_popsLast(s) ==
    IF s.undo_stack = <<>> THEN s
    ELSE LET current_state == Top(s.undo_stack)
             s1 == [s EXCEPT !.undo_stack = Pop(s.undo_stack),
                             !.redo_stack = Append(s.redo_stack, current_state)]
         IN IF s1.undo_stack = <<>> THEN s1
            ELSE ApplyRestored(s1, Top(s1.undo_stack))

\* redo that installs the state without putting it back on undo_stack
redo_notPushedBack(s) ==
    IF s.redo_stack = <<>> THEN s
    ELSE LET redo_state == Top(s.redo_stack)
             s1 == [s EXCEPT !.redo_stack = Pop(s.redo_stack)]
         IN ApplyRestored(s1, redo_state)

\* clear_undo_history that forgets redo_stack
clear_undo_history_keepsRedo(s) ==
    [s EXCEPT !.undo_stack = <<>>]

\* undo that installs the snapshot it has just popped
undo_restoresPopped(s) ==
    IF Len(s.undo_stack) <= 1 THEN s
    ELSE LET current_state == Top(s.undo_stack)
             s1 == [s EXCEPT !.undo_stack = Pop(s.undo_stack),
                             !.redo_stack = Append(s.redo_stack, current_state)]
         IN ApplyRestored(s1, current_state)

undo(s) ==
    IF Len(s.undo_stack) <= 1 THEN s
    ELSE LET current_state == Top(s.undo_stack)
             s1 == [s EXCEPT !.undo_stack = Pop(s.undo_stack),
                             !.redo_stack = Append(s.redo_stack, current_state)]
         IN ApplyRestored(s1, Top(s1.undo_stack))

\* redo that copies the snapshot to undo_stack and leaves it on redo_stack
redo_copiesSnapshot(s) ==
    IF s.redo_stack = <<>> THEN s
    ELSE LET redo_state == Top(s.redo_stack)
             s1 == [s EXCEPT !.undo_stack = Append(s.undo_stack, redo_state)]
         IN ApplyRestored(s1, redo_state)

redo(s) ==
    IF s.redo_stack = <<>> THEN s
    ELSE LET redo_state == Top(s.redo_stack)
             s1 == [s EXCEPT !.redo_stack = Pop(s.redo_stack),
                             !.undo_stack = Append(s.undo_stack, redo_state)]
         IN ApplyRestored(s1, redo_state)

clear_undo_history(s) ==
    [s EXCEPT !.undo_stack = <<>>, !.redo_stack = <<>>]

----------------------------------------------------------------------------
(* FileManager: note storage *)

TrashDir == <<".", "t", "r", "a", "s", "h">>

JournalDir == <<".", "j", "o", "u", "r", "n", "a", "l">>

\* the path lies below the directory
IsUnder(path, directory) ==
    /\ Len(path) > Len(directory) + 1
    /\ SubSeq(path, 1, Len(directory) + 1) = directory \o <<"/">>

\* what one call of save_note may do: write the content; fail in open()
\* (file untouched); fail in write() after open(.., 'w') truncated the file
SaveOutcomes == {"ok", "open_failed", "write_failed"}

\* the directory exists: the notes directory, one the application creates
\* at start-up, or one that holds a note
DirectoryExists(fs, directory) ==
    \/ directory \in {<<>>, TrashDir, JournalDir}
    \/ \E file_path \in DOMAIN fs : IsUnder(file_path, directory)

\* FileManager.save_note; open() fails when the directory of the path is gone
save_note(s, file_path, content, io) ==
    LET outcome == IF DirectoryExists(s.files, dirname(file_path))
                   THEN io ELSE "open_failed"
    IN IF outcome = "ok"
       THEN [s EXCEPT !.files = (file_path :> content) @@ s.files,
                      !.hist.written = @ \cup {file_path},
                      !.hist.save_failed = FALSE,
                      !.hist.unsaved = <<>>,
                      !.hist.unsaved_path = None]
       ELSE LET failed == [s EXCEPT !.hist.save_failed = TRUE,
                                    !.hist.unsaved = content,
                                    !.hist.unsaved_path = file_path]
            IN IF outcome = "open_failed" THEN failed
               ELSE [failed EXCEPT !.files = (file_path :> <<>>) @@ s.files,
                                   !.hist.written = @ \cup {file_path}]

read_note(s, file_path) ==
    IF file_path \in DOMAIN s.files THEN s.files[file_path] ELSE <<>>

\* normalize_path(path).startswith(normalize_path(trash_dir))
is_in_trash(path) ==
    /\ Len(path) >= Len(TrashDir)
    /\ SubSeq(path, 1, Len(TrashDir)) = TrashDir

\* create_note_from_link: create_empty_file opens the path in append mode
create_note_from_link(s, link_text) ==
    LET file_path == create_note_from_link_path(link_text)
    IN IF file_path \in DOMAIN s.files THEN s
       ELSE [s EXCEPT !.files = (file_path :> <<>>) @@ s.files]

\* what os.rename / shutil.move may do
MoveOutcomes == {"ok", "failed"}

\* the notes directory after os.rename(old_path, new_path): the content moves
\* to the new path, replacing what was there
Moved(fs, old_path, new_path) ==
    IF old_path = new_path THEN fs
    ELSE [file_path \in (DOMAIN fs \ {old_path}) \cup {new_path} |->
             IF file_path = new_path THEN fs[old_path] ELSE fs[file_path]]

\* FileManager.rename_note: [success, new_path, s]
rename_note(s, old_path, new_name, io) ==
    LET new_path == JoinPath(<<dirname(old_path),
                               add_markdown_extension(sanitize_filename(new_name))>>)
    IN IF new_path \in DOMAIN s.files /\ normpath(new_path) # normpath(old_path)
       THEN [success |-> FALSE, new_path |-> None, s |-> s]
       ELSE IF io # "ok"
       THEN [success |-> FALSE, new_path |-> None, s |-> s]
       ELSE [success |-> TRUE, new_path |-> new_path,
             s |-> [s EXCEPT !.files = Moved(@, old_path, new_path)]]

\* os.path.exists of a path other than the notes directory: a note, or a
\* directory that holds one
PathExists(fs, path) ==
    path \in DOMAIN fs \/ \E file_path \in DOMAIN fs : IsUnder(file_path, path)

\* the notes directory after os.rename(old_path, new_path) of a directory:
\* every note below it is below the new path
MovedDirectory(fs, old_path, new_path) ==
    LET rebased(file_path) ==
            IF IsUnder(file_path, old_path)
            THEN new_path \o SubSeq(file_path, Len(old_path) + 1, Len(file_path))
            ELSE file_path
    IN [file_path \in { rebased(g) : g \in DOMAIN fs } |->
           fs[CHOOSE g \in DOMAIN fs : rebased(g) = file_path]]

\* FileManager.rename_directory: [success, new_path, s]; a name that
\* sanitizes to nothing gives the path of the parent directory, which exists
rename_directory(s, old_path, new_name, io) ==
    LET sanitized_name == sanitize_filename(new_name)
        new_path == JoinPath(<<dirname(old_path), sanitized_name>>)
    IN IF (sanitized_name = <<>> \/ PathExists(s.files, new_path))
          /\ normpath(new_path) # normpath(old_path)
       THEN [success |-> FALSE, new_path |-> None, s |-> s]
       ELSE IF io # "ok"
       THEN [success |-> FALSE, new_path |-> None, s |-> s]
       ELSE [success |-> TRUE, new_path |-> new_path,
             s |-> [s EXCEPT !.files = MovedDirectory(@, old_path, new_path)]]

\* FileManager.move_note: [success, new_path, s]
move_note(s, source_path, target_dir, io) ==
    LET dest_path == JoinPath(<<target_dir, basename(source_path)>>)
    IN IF normpath(source_path) = normpath(dest_path) \/ io # "ok"
       THEN [success |-> FALSE, new_path |-> None, s |-> s]
       ELSE [success |-> TRUE, new_path |-> dest_path,
             s |-> [s EXCEPT !.files = Moved(@, source_path, dest_path)]]

\* a scan that writes every markdown file back
update_all_links_writesEveryNote(s, old_path, new_path) ==
    LET notes == { file_path \in DOMAIN s.files : is_markdown_file(basename(file_path)) }
    IN [s EXCEPT !.files = [file_path \in DOMAIN s.files |->
                               IF file_path \in notes
                               THEN update_link_references(s.files[file_path],
                                                           old_path, new_path)
                               ELSE s.files[file_path]],
                 !.hist.written = @ \cup notes]

\* FileManager.update_all_links: every markdown file under the notes
\* directory is read, and written back when the rewrite changed its content
update_all_links(s, old_path, new_path) ==
    LET updated(file_path) ==
            update_link_references(s.files[file_path], old_path, new_path)
        changed == { file_path \in DOMAIN s.files :
                        /\ is_markdown_file(basename(file_path))
                        /\ updated(file_path) # s.files[file_path] }
    IN [s EXCEPT !.files = [file_path \in DOMAIN s.files |->
                               IF file_path \in changed
                               THEN updated(file_path) ELSE s.files[file_path]],
                 !.hist.written = @ \cup changed]

\* the path create_journal_entry builds for the date
journal_file_of(date) ==
    LET c == get_journal_path_components(date)
    IN JoinPath(<<JournalDir, c[1], c[2], c[3] \o MdExt>>)

\* a journal entry that writes the header on every call
create_journal_entry_rewritesHeader(s, date) ==
    LET journal_file == journal_file_of(date)
    IN [journal_file |-> journal_file,
        s |-> [s EXCEPT !.files = (journal_file :> create_journal_header(date))
                                  @@ s.files,
                        !.hist.written = @ \cup {journal_file}]]

\* FileManager.create_journal_entry: [journal_file, s]
create_journal_entry(s, date) ==
    LET journal_file == journal_file_of(date)
    IN [journal_file |-> journal_file,
        s |-> IF journal_file \in DOMAIN s.files THEN s
              ELSE [s EXCEPT !.files = (journal_file :> create_journal_header(date))
                                       @@ s.files,
                             !.hist.written = @ \cup {journal_file}]]

\* os.path.splitext of a file name: <<base, ext>>
RECURSIVE LastDot(_, _)
LastDot(name, k) ==
    IF k <= 1 THEN 0 ELSE IF name[k] = "." THEN k ELSE LastDot(name, k - 1)

splitext(name) ==
    LET k == LastDot(name, Len(name))
    IN IF k = 0 THEN <<name, <<>>>>
       ELSE <<SubSeq(name, 1, k - 1), SubSeq(name, k, Len(name))>>

\* get_unique_filepath: the loop over the counter
RECURSIVE UniqueLoop(_, _, _, _)
UniqueLoop(fs, directory, filename, counter) ==
    LET filepath == JoinPath(<<directory, splitext(filename)[1] \o <<"_">>
                                          \o Digits(counter)
                                          \o splitext(filename)[2]>>)
    IN IF filepath \in DOMAIN fs
       THEN UniqueLoop(fs, directory, filename, counter + 1)
       ELSE filepath

get_unique_filepath(fs, directory, filename) ==
    IF JoinPath(<<directory, filename>>) \notin DOMAIN fs
    THEN JoinPath(<<directory, filename>>)
    ELSE UniqueLoop(fs, directory, filename, 1)

\* FileManager.delete_note: the note moves to the trash; [success, s]
delete_note(s, file_path, io) ==
    IF file_path \notin DOMAIN s.files \/ io # "ok"
    THEN [success |-> FALSE, s |-> s]
    ELSE [success |-> TRUE,
          s |-> [s EXCEPT !.files =
                    Moved(@, file_path,
                          get_unique_filepath(s.files, TrashDir,
                                              basename(file_path)))]]

----------------------------------------------------------------------------
(* MainWindow *)

save_current_file(s, io) ==
    IF s.current_file = None THEN s
    ELSE IF s.is_read_only
    THEN save_note(s, s.current_file, s.original_content, io)
    ELSE save_note([s EXCEPT !.original_content = s.text],
                   s.current_file, s.text, io)

toggle_mode(s) ==
    LET s1 == [s EXCEPT !.is_read_only = ~s.is_read_only]
    IN IF s1.is_read_only
       THEN format_for_read_only([s1 EXCEPT !.original_content = s1.text])
       ELSE format_links(setPlainText(s1, s1.original_content))

\* on_file_selected for a tree item of type "file" with path file_path
on_file_selected(s, file_path, io) ==
    IF is_in_trash(file_path) THEN s
    ELSE LET s1 == IF s.current_file # None THEN save_current_file(s, io) ELSE s
             content == read_note(s1, file_path)
             s2 == [s1 EXCEPT !.current_file = file_path,
                              !.original_content = content,
                              !.hist.loaded = content,
                              !.hist.edited = FALSE]
             s3 == setPlainText(clear_undo_history(s2), content)
         IN IF s3.is_read_only THEN format_for_read_only(s3) ELSE format_links(s3)

\* MainWindow.handle_link_click; the file tree lists the existing notes
handle_link_click(s, link_text, io1, io2) ==
    LET s1 == save_current_file(s, io1)
        file_path == link_to_filepath(link_text)
        s2 == IF file_path \notin DOMAIN s1.files
              THEN create_note_from_link(s1, link_text) ELSE s1
    IN IF file_path \in DOMAIN s2.files
       THEN on_file_selected(s2, file_path, io2)
       ELSE s2

\* MainWindow.rename_item for a tree item of type "file" and the name the
\* user gives in the dialog (an empty name is as good as Cancel)
rename_item(s, item_path, new_name, io) ==
    IF new_name = <<>> THEN s
    ELSE LET renamed == rename_note(s, item_path, new_name, io)
         IN IF ~renamed.success THEN s
            ELSE LET s1 == update_all_links(renamed.s, item_path, renamed.new_path)
                 IN [s1 EXCEPT !.current_file = IF item_path = s.current_file
                                                THEN renamed.new_path ELSE @]

\* MainWindow.rename_item for a tree item of type "directory"
rename_item_directory(s, item_path, new_name, io) ==
    IF new_name = <<>> THEN s
    ELSE LET renamed == rename_directory(s, item_path, new_name, io)
         IN IF ~renamed.success THEN s ELSE renamed.s

\* MainWindow.tree_drop_event for a dragged file item and the directory the
\* drop resolves to
tree_drop_event(s, source_path, target_dir, io) ==
    LET moved == move_note(s, source_path, target_dir, io)
    IN IF ~moved.success THEN s
       ELSE LET s1 == update_all_links(moved.s, source_path, moved.new_path)
            IN [s1 EXCEPT !.current_file = IF s.current_file = source_path
                                           THEN moved.new_path ELSE @]

\* an auto-save that falls back to the home note when no note is open
auto_save_withoutOpenNote(s, io) ==
    IF s.current_file = None
    THEN save_note(s, HomePath, s.text, io)
    ELSE save_current_file(s, io)

\* MainWindow.auto_save, the slot of the 5 s timer
auto_save(s, io) == save_current_file(s, io)

\* MainWindow.open_today_journal with the clock at date today; the file tree
\* lists the existing notes
open_today_journal(s, today, io1, io2) ==
    LET s1 == save_current_file(s, io1)
        created == create_journal_entry(s1, today)
    IN on_file_selected(created.s, created.journal_file, io2)

\* MainWindow.delete_item for a tree item of type "file"
delete_item(s, item_path, io) ==
    LET deleted == delete_note(s, item_path, io)
    IN IF ~deleted.success THEN s
       ELSE IF item_path = s.current_file
       THEN [QTextEdit_setPlainText([deleted.s EXCEPT !.current_file = None], <<>>)
                EXCEPT !.original_content = <<>>]
       ELSE deleted.s

----------------------------------------------------------------------------
(* ClickableTextEdit: keyboard and mouse *)

StructuralKeys == {"Return", "Enter", "Tab", "Delete", "Backspace"}

InsertedText(key) ==
    IF key \in {"Return", "Enter"} THEN <<"\n">>
    ELSE IF key = "Tab" THEN <<"\t">>
    ELSE <<key>>

Inserts(key) == key \notin {"Ctrl+Z", "Ctrl+Y", "Delete", "Backspace"}

\* QTextEdit.keyPressEvent: a read-only editor takes no edit; an edit that
\* changes the document fires textChanged
QTextEdit_keyPressEvent(s, key) ==
    IF s.is_read_only THEN s
    ELSE IF key = "Backspace"
    THEN IF s.cursor = 0 THEN s
         ELSE on_text_changed(
                [s EXCEPT !.text = Slice(s.text, 0, s.cursor - 1)
                                   \o Slice(s.text, s.cursor, Len(s.text)),
                          !.cursor = s.cursor - 1,
                          !.hist.edited = TRUE])
    ELSE IF key = "Delete"
    THEN IF s.cursor >= Len(s.text) THEN s
         ELSE on_text_changed(
                [s EXCEPT !.text = Slice(s.text, 0, s.cursor)
                                   \o Slice(s.text, s.cursor + 1, Len(s.text)),
                          !.hist.edited = TRUE])
    ELSE on_text_changed(
           [s EXCEPT !.text = Slice(s.text, 0, s.cursor) \o InsertedText(key)
                              \o Slice(s.text, s.cursor, Len(s.text)),
                     !.cursor = s.cursor + 1,
                     !.hist.edited = TRUE])

keyPressEvent(s, key) ==
    IF key = "Ctrl+Z"
    THEN IF ~s.is_read_only THEN undo(s) ELSE s
    ELSE IF key = "Ctrl+Y"
    THEN IF ~s.is_read_only THEN redo(s) ELSE s
    ELSE LET s1 == IF ~s.is_undoing /\ key \in StructuralKeys
                   THEN save_undo_state(s) ELSE s
         IN QTextEdit_keyPressEvent(s1, key)

\* a read-only hit test that takes off two characters for each link before
\* the match instead of four
RECURSIVE ReadOnlyHit_opensOnly(_, _, _)
ReadOnlyHit_opensOnly(ms, k, position) ==
    IF k > Len(ms) THEN <<>>
    ELSE LET link_text     == ms[k][3]
             display_start == ms[k][1] - 2 * (k - 1)
             display_end   == display_start + Len(link_text)
         IN IF display_start <= position /\ position <= display_end
            THEN <<link_text>>
            ELSE ReadOnlyHit_opensOnly(ms, k + 1, position)

\* the link a left click at offset position activates: the loops of
\* mousePressEvent over the matches ms, from match k on; <<>> when none
RECURSIVE ReadOnlyHit(_, _, _)
ReadOnlyHit(ms, k, position) ==
    IF k > Len(ms) THEN <<>>
    ELSE LET link_text     == ms[k][3]
             display_start == ms[k][1] - 4 * (k - 1)
             display_end   == display_start + Len(link_text)
         IN IF display_start <= position /\ position <= display_end
            THEN <<link_text>>
            ELSE ReadOnlyHit(ms, k + 1, position)

RECURSIVE EditHit(_, _, _)
EditHit(ms, k, position) ==
    IF k > Len(ms) THEN <<>>
    ELSE IF ms[k][1] <= position /\ position <= ms[k][2]
         THEN <<ms[k][3]>>
         ELSE EditHit(ms, k + 1, position)

\* the link text under offset position, as <<link_text>>, or <<>>
LinkAt(s, position) ==
    IF s.is_read_only
    THEN ReadOnlyHit(find_all_links(s.original_content), 1, position)
    ELSE EditHit(find_all_links(s.text), 1, position)

mousePressEvent(s, position, io1, io2) ==
    LET hit == LinkAt(s, position)
    IN IF hit # <<>>
       THEN handle_link_click(s, hit[1], io1, io2)
       ELSE [s EXCEPT !.cursor = position]

----------------------------------------------------------------------------
(* ClickableTextEdit: callout blocks, AI-response blocks, block visibility *)
(* The document is the sequence of its blocks (lines); block numbers are   *)
(* 0-based as in QTextDocument.  A widget record w holds the block state.  *)

START_MARKER ==
    <<"§", "§", "§", "A", "I", "_", "R", "E", "S", "P", "O", "N", "S", "E",
      "_", "S", "T", "A", "R", "T", "§", "§", "§">>

END_MARKER ==
    <<"§", "§", "§", "A", "I", "_", "R", "E", "S", "P", "O", "N", "S", "E",
      "_", "E", "N", "D", "§", "§", "§">>

\* '> thinking...'
THINKING_HEADER ==
    <<">", " ", "t", "h", "i", "n", "k", "i", "n", "g", ".", ".", ".">>

UpperCase ==
    <<"A", "B", "C", "D", "E", "F", "G", "H", "I", "J", "K", "L", "M",
      "N", "O", "P", "Q", "R", "S", "T", "U", "V", "W", "X", "Y", "Z">>

LowerCase ==
    <<"a", "b", "c", "d", "e", "f", "g", "h", "i", "j", "k", "l", "m",
      "n", "o", "p", "q", "r", "s", "t", "u", "v", "w", "x", "y", "z">>

\* str.lower()
Lower(t) ==
    [k \in 1..Len(t) |->
        IF \E j \in 1..Len(UpperCase) : UpperCase[j] = t[k]
        THEN LowerCase[CHOOSE j \in 1..Len(UpperCase) : UpperCase[j] = t[k]]
        ELSE t[k]]

\* str.strip()
Strip(t) == RStrip(LStrip(t))

\* str.startswith(prefix)
StartsWith(t, prefix) ==
    Len(t) >= Len(prefix) /\ SubSeq(t, 1, Len(prefix)) = prefix

\* document.blockCount() and document.findBlockByNumber(n).text()
BlockCount(w) == Len(w.blocks)

BlockText(w, block_num) == w.blocks[block_num + 1]

\* a variant that records, for each line, a range that stops at that line
StoreRange_endsAtLine(map, start, end) ==
    [i \in DOMAIN map \cup (start..end) |->
        IF i \in start..end THEN [start |-> start, end |-> i] ELSE map[i]]

\* map[i] = {'start': start, 'end': end} for i in range(start, end + 1)
StoreRange(map, start, end) ==
    [i \in DOMAIN map \cup (start..end) |->
        IF i \in start..end THEN [start |-> start, end |-> end] ELSE map[i]]

\* the auto-fold of a '> thinking...' callout that starts at block start
AutoFold(w, is_thinking_callout, start) ==
    IF is_thinking_callout /\ start \notin w.manually_toggled_callouts
                           /\ start \notin w.folded_callouts
    THEN [w EXCEPT !.folded_callouts = @ \cup {start}]
    ELSE w

\* the loop of find_callout_blocks from block block_num on, and what follows it
RECURSIVE CalloutLoop(_, _, _, _)
CalloutLoop(w, block_num, current_callout_start, is_thinking_callout) ==
    IF block_num >= BlockCount(w)
    THEN IF current_callout_start # NoStart
         THEN AutoFold([w EXCEPT !.callout_blocks =
                           StoreRange(@, current_callout_start, BlockCount(w) - 1)],
                       is_thinking_callout, current_callout_start)
         ELSE w
    ELSE LET block_text == BlockText(w, block_num)
         IN IF StartsWith(Strip(block_text), <<">">>)
            THEN IF current_callout_start = NoStart
                 THEN CalloutLoop(w, block_num + 1, block_num,
                                  is_thinking_callout
                                     \/ Lower(Strip(block_text)) = THINKING_HEADER)
                 ELSE CalloutLoop(w, block_num + 1, current_callout_start,
                                  is_thinking_callout)
            ELSE IF current_callout_start # NoStart
                 THEN CalloutLoop(
                        AutoFold([w EXCEPT !.callout_blocks =
                                    StoreRange(@, current_callout_start, block_num - 1)],
                                 is_thinking_callout, current_callout_start),
                        block_num + 1, NoStart, FALSE)
                 ELSE CalloutLoop(w, block_num + 1, NoStart, is_thinking_callout)

find_callout_blocks(w) ==
    CalloutLoop([w EXCEPT !.callout_blocks = <<>>], 0, NoStart, FALSE)

\* a variant in which a START marker that is still open at the end of the
\* document records a range that runs to the last block
RECURSIVE AiLoop_openToEnd(_, _, _, _)
AiLoop_openToEnd(w, block_num, in_ai_response, ai_response_start) ==
    IF block_num >= BlockCount(w)
    THEN IF in_ai_response /\ ai_response_start # NoStart
         THEN [w EXCEPT !.ai_response_blocks =
                  StoreRange(@, ai_response_start, BlockCount(w) - 1)]
         ELSE w
    ELSE LET block_text == Strip(BlockText(w, block_num))
         IN IF block_text = START_MARKER
            THEN AiLoop_openToEnd(w, block_num + 1, TRUE, block_num)
            ELSE IF block_text = END_MARKER
            THEN AiLoop_openToEnd(IF in_ai_response /\ ai_response_start # NoStart
                                  THEN [w EXCEPT !.ai_response_blocks =
                                           StoreRange(@, ai_response_start, block_num)]
                                  ELSE w,
                                  block_num + 1, FALSE, NoStart)
            ELSE AiLoop_openToEnd(w, block_num + 1, in_ai_response,
                                  ai_response_start)

\* the loop of find_ai_response_blocks from block block_num on
RECURSIVE AiLoop(_, _, _, _)
AiLoop(w, block_num, in_ai_response, ai_response_start) ==
    IF block_num >= BlockCount(w) THEN w
    ELSE LET block_text == Strip(BlockText(w, block_num))
         IN IF block_text = START_MARKER
            THEN AiLoop(w, block_num + 1, TRUE, block_num)
            ELSE IF block_text = END_MARKER
            THEN AiLoop(IF in_ai_response /\ ai_response_start # NoStart
                        THEN [w EXCEPT !.ai_response_blocks =
                                 StoreRange(@, ai_response_start, block_num)]
                        ELSE w,
                        block_num + 1, FALSE, NoStart)
            ELSE AiLoop(w, block_num + 1, in_ai_response, ai_response_start)

find_ai_response_blocks(w) ==
    AiLoop([w EXCEPT !.ai_response_blocks = <<>>], 0, FALSE, NoStart)

\* a variant that hides a marker line only when it belongs to a recorded
\* AI-response range
BlockVisible_pairedMarkersOnly(w, block_num) ==
    IF /\ Strip(BlockText(w, block_num)) \in {START_MARKER, END_MARKER}
       /\ block_num \in DOMAIN w.ai_response_blocks
    THEN FALSE
    ELSE IF block_num \in DOMAIN w.callout_blocks
    THEN ~(w.callout_blocks[block_num].start \in w.folded_callouts
           /\ block_num > w.callout_blocks[block_num].start)
    ELSE TRUE

\* the flag update_block_visibility gives block block_num
BlockVisible(w, block_num) ==
    IF Strip(BlockText(w, block_num)) \in {START_MARKER, END_MARKER}
    THEN FALSE
    ELSE IF block_num \in DOMAIN w.callout_blocks
    THEN ~(w.callout_blocks[block_num].start \in w.folded_callouts
           /\ block_num > w.callout_blocks[block_num].start)
    ELSE TRUE

update_block_visibility(w) ==
    [w EXCEPT !.visible = [k \in 1..BlockCount(w) |-> BlockVisible(w, k - 1)]]

\* a variant that folds and records the line it is given instead of the first
\* line of the callout
toggle_callout_fold_keyedByLine(w, block_num) ==
    IF block_num \notin DOMAIN w.callout_blocks THEN w
    ELSE LET w1 == [w EXCEPT !.manually_toggled_callouts = @ \cup {block_num}]
             w2 == IF block_num \in w1.folded_callouts
                   THEN [w1 EXCEPT !.folded_callouts = @ \ {block_num}]
                   ELSE [w1 EXCEPT !.folded_callouts = @ \cup {block_num}]
         IN update_block_visibility(w2)

toggle_callout_fold(w, block_num) ==
    IF block_num \notin DOMAIN w.callout_blocks THEN w
    ELSE LET start_block == w.callout_blocks[block_num].start
             w1 == [w EXCEPT !.manually_toggled_callouts = @ \cup {start_block}]
             w2 == IF start_block \in w1.folded_callouts
                   THEN [w1 EXCEPT !.folded_callouts = @ \ {start_block}]
                   ELSE [w1 EXCEPT !.folded_callouts = @ \cup {start_block}]
         IN update_block_visibility(w2)

on_internal_text_changed(w) ==
    update_block_visibility(find_ai_response_blocks(find_callout_blocks(w)))

\* paintEvent, as to the block state: both maps are built again from the
\* document (and a '> thinking...' callout met for the first time is folded);
\* the visibility of the blocks is not updated
paintEvent(w) == find_ai_response_blocks(find_callout_blocks(w))

\* PromptProcessor: src/src/services/prompt_processor.py

TOUSER_OPEN == <<"<", "T", "O", "U", "S", "E", "R", ">">>

TOUSER_CLOSE == <<"<", "/", "T", "O", "U", "S", "E", "R", ">">>

\* the first offset at or after i where tag stands in t, letter case ignored;
\* Len(t) when there is none
RECURSIVE FindTag(_, _, _)
FindTag(t, tag, i) ==
    IF i + Len(tag) > Len(t) THEN Len(t)
    ELSE IF Lower(Slice(t, i, i + Len(tag))) = Lower(tag) THEN i
    ELSE FindTag(t, tag, i + 1)

\* touser_pattern.search(t) from offset i on: <<start, end>> of the match of
\* <TOUSER>(.*?)</TOUSER>, or <<>>
TouserSearch(t, i) ==
    LET open  == FindTag(t, TOUSER_OPEN, i)
        close == FindTag(t, TOUSER_CLOSE, open + Len(TOUSER_OPEN))
    IN IF open < Len(t) /\ close < Len(t)
       THEN <<open, close + Len(TOUSER_CLOSE)>> ELSE <<>>

\* touser_pattern.sub('', t) from offset i on
RECURSIVE TouserSub(_, _)
TouserSub(t, i) ==
    LET m == TouserSearch(t, i)
    IN IF m = <<>> THEN Slice(t, i, Len(t))
       ELSE Slice(t, i, m[1]) \o TouserSub(t, m[2])

\* str.split('\n')
RECURSIVE SplitLines(_, _)
SplitLines(t, line) ==
    IF t = <<>> THEN <<line>>
    ELSE IF Head(t) = "\n" THEN <<line>> \o SplitLines(Tail(t), <<>>)
    ELSE SplitLines(Tail(t), Append(line, Head(t)))

\* '\n'.join(parts)
RECURSIVE JoinLines(_)
JoinLines(parts) ==
    IF parts = <<>> THEN <<>>
    ELSE IF Len(parts) = 1 THEN parts[1]
    ELSE parts[1] \o <<"\n">> \o JoinLines(Tail(parts))

\* the '> '-prefixed lines of the thinking content, empty lines skipped
RECURSIVE ThinkingParts(_)
ThinkingParts(lines) ==
    IF lines = <<>> THEN <<>>
    ELSE IF Strip(Head(lines)) # <<>>
         THEN << <<">", " ">> \o Head(lines) >> \o ThinkingParts(Tail(lines))
         ELSE ThinkingParts(Tail(lines))

\* a formatter that puts the thinking lines in without the '> ' prefix
format_response_for_insertion_unprefixed(response) ==
    LET m == TouserSearch(response, 0)
        user_content == IF m # <<>>
                        THEN Strip(Slice(response, m[1] + Len(TOUSER_OPEN),
                                         m[2] - Len(TOUSER_CLOSE)))
                        ELSE Strip(response)
        thinking_content == IF m # <<>> THEN Strip(TouserSub(response, 0)) ELSE <<>>
        thinking == IF thinking_content # <<>>
                    THEN << <<"\n", "\n">> \o THINKING_HEADER >>
                         \o SelectSeq(SplitLines(thinking_content, <<>>),
                                      LAMBDA line : Strip(line) # <<>>)
                    ELSE <<>>
        user == IF user_content # <<>>
                THEN << <<"\n", "\n">> \o START_MARKER, user_content, END_MARKER >>
                ELSE <<>>
    IN JoinLines(thinking \o user)

\* PromptProcessor.format_response_for_insertion
format_response_for_insertion(response) ==
    LET m == TouserSearch(response, 0)
        user_content == IF m # <<>>
                        THEN Strip(Slice(response, m[1] + Len(TOUSER_OPEN),
                                         m[2] - Len(TOUSER_CLOSE)))
                        ELSE Strip(response)
        thinking_content == IF m # <<>> THEN Strip(TouserSub(response, 0)) ELSE <<>>
        thinking == IF thinking_content # <<>>
                    THEN << <<"\n", "\n">> \o THINKING_HEADER >>
                         \o ThinkingParts(SplitLines(thinking_content, <<>>))
                    ELSE <<>>
        user == IF user_content # <<>>
                THEN << <<"\n", "\n">> \o START_MARKER, user_content, END_MARKER >>
                ELSE <<>>
    IN JoinLines(thinking \o user)

\* the widget record a handler works on
W == [blocks |-> blocks, callout_blocks |-> callout_blocks,
      ai_response_blocks |-> ai_response_blocks,
      folded_callouts |-> folded_callouts,
      manually_toggled_callouts |-> manually_toggled_callouts,
      visible |-> visible, internal_connected |-> internal_connected,
      is_read_only |-> is_read_only, hist |-> hist]

\* the block state after ClickableTextEdit.__init__ and MainWindow.init_ui:
\* an empty document of one block, the listener connected, read-only
ConstructedWidget ==
    [blocks |-> << <<>> >>, callout_blocks |-> <<>>,
     ai_response_blocks |-> <<>>, folded_callouts |-> {},
     manually_toggled_callouts |-> {}, visible |-> <<TRUE>>,
     internal_connected |-> TRUE, is_read_only |-> TRUE, hist |-> NoHistory]

\* textChanged.disconnect() without a slot disconnects every slot, the
\* editor's on_internal_text_changed included; format_links and
\* format_for_read_only connect MainWindow.on_text_changed again and nothing
\* else.  format_links changes character formats only.
format_links_blocks(w) == [w EXCEPT !.internal_connected = FALSE]

\* format_for_read_only rebuilds the document from the bracket-stripped
\* text: the first block survives removeSelectedText with its flag, the
\* blocks insertText creates are visible
format_for_read_only_blocks(w) ==
    [w EXCEPT !.internal_connected = FALSE,
              !.blocks = [k \in 1..Len(w.blocks) |->
                            remove_link_brackets(w.blocks[k])[1]],
              !.visible = [k \in 1..Len(w.blocks) |->
                            IF k = 1 THEN w.visible[1] ELSE TRUE]]

\* the textChanged signal: the slots run in the order they were connected,
\* on_internal_text_changed (while connected), then MainWindow.on_text_changed,
\* which returns at once in read-only mode (a note is open)
EmitTextChanged(w) ==
    LET w1 == IF w.internal_connected THEN on_internal_text_changed(w) ELSE w
    IN IF w1.is_read_only THEN w1 ELSE format_links_blocks(w1)

\* ClickableTextEdit.setPlainText, as to the blocks: a new document d, whose
\* blocks are visible, textChanged, then the three calls of the override
setPlainText_blocks(w, d) ==
    LET w1 == EmitTextChanged([w EXCEPT !.blocks = d,
                                        !.visible = [k \in 1..Len(d) |-> TRUE]])
    IN update_block_visibility(find_ai_response_blocks(find_callout_blocks(w1)))

\* clear_undo_history, as to the blocks
clear_undo_history_blocks(w) ==
    [w EXCEPT !.folded_callouts = {}, !.manually_toggled_callouts = {}]

\* on_file_selected, as to the blocks, for a note whose content is d
on_file_selected_blocks(w, d) ==
    LET w1 == setPlainText_blocks(clear_undo_history_blocks(w), d)
    IN IF w1.is_read_only THEN format_for_read_only_blocks(w1)
       ELSE format_links_blocks(w1)

\* toggle_mode, as to the blocks; the notes explored hold no link, so that
\* original_content is the text the read-only editor shows
toggle_mode_blocks(w) ==
    LET w1 == [w EXCEPT !.is_read_only = ~w.is_read_only]
    IN IF w1.is_read_only THEN format_for_read_only_blocks(w1)
       ELSE format_links_blocks(setPlainText_blocks(w1, w1.blocks))

\* seq with x put in before its element k (1-based), and with element k removed
InsertAt(seq, k, x) ==
    SubSeq(seq, 1, k - 1) \o <<x>> \o SubSeq(seq, k, Len(seq))

RemoveAt(seq, k) == SubSeq(seq, 1, k - 1) \o SubSeq(seq, k + 1, Len(seq))

\* Return that is rejected strictly inside an AI-response range
ReturnAtBlockStart_protected(w, block_num) ==
    IF w.is_read_only THEN w
    ELSE IF block_num \in DOMAIN w.ai_response_blocks
            /\ w.ai_response_blocks[block_num].start < block_num
    THEN w
    ELSE EmitTextChanged(
           [w EXCEPT !.blocks = InsertAt(@, block_num + 1, <<>>),
                     !.visible = InsertAt(@, block_num + 1, TRUE),
                     !.hist.unfolded = IF @ # NoStart /\ block_num < @
                                       THEN @ + 1 ELSE NoStart])

\* keyPressEvent for Return with the cursor at the start of block block_num,
\* as to the blocks: QTextEdit puts an empty, visible block in before it
ReturnAtBlockStart(w, block_num) ==
    IF w.is_read_only THEN w
    ELSE EmitTextChanged(
           [w EXCEPT !.blocks = InsertAt(@, block_num + 1, <<>>),
                     !.visible = InsertAt(@, block_num + 1, TRUE),
                     !.hist.unfolded = IF @ # NoStart /\ block_num < @
                                       THEN @ + 1 ELSE NoStart])

\* keyPressEvent for Delete with the cursor in the empty block block_num, as
\* to the blocks: QTextEdit joins the block with the next one, whose text
\* moves up into it
DeleteEmptyBlock(w, block_num) ==
    IF w.is_read_only \/ block_num + 1 >= BlockCount(w)
       \/ BlockText(w, block_num) # <<>>
    THEN w
    ELSE EmitTextChanged(
           [w EXCEPT !.blocks = RemoveAt(@, block_num + 1),
                     !.visible = RemoveAt(@, block_num + 2),
                     !.hist.unfolded = NoStart])

\* mousePressEvent for a left click in the left margin (x < 30) of block
\* block_num, as to the blocks: only the first line of a callout toggles
MarginClick(w, block_num) ==
    IF block_num \in DOMAIN w.callout_blocks
       /\ w.callout_blocks[block_num].start = block_num
    THEN LET w1 == toggle_callout_fold(w, block_num)
             fresh == find_callout_blocks(w1).callout_blocks
         IN [w1 EXCEPT !.hist.unfolded =
                IF /\ block_num \notin w1.folded_callouts
                   /\ block_num \in DOMAIN fresh
                   /\ fresh[block_num].start = block_num
                   /\ Lower(Strip(BlockText(w1, block_num))) = THINKING_HEADER
                THEN block_num ELSE NoStart]
    ELSE w

----------------------------------------------------------------------------
(* The state machine *)

\* the keys the user presses: undo, redo, one structural key, one printable
\* character
KeyInputs == {"Ctrl+Z", "Ctrl+Y", "Delete", "a"}

\* where the user clicks: at the start and at the end of the document
ClickPositions(t) == {0, Len(t)}

\* the notes directory at start-up: home.md (FileManager creates it when it
\* is missing) holding one link
InitialFiles == { (HomePath :> LinkA) }

\* the fields after ClickableTextEdit.__init__ and the assignments of
\* MainWindow.__init__, over the notes directory fs
Constructed(fs) ==
    [text |-> <<>>, cursor |-> 0, undo_stack |-> <<>>, redo_stack |-> <<>>,
     is_undoing |-> FALSE, is_read_only |-> TRUE, original_content |-> <<>>,
     current_file |-> None, files |-> fs, hist |-> NoHistory]

\* the primed variables take the fields of the session record r; the history
\* is kept when track holds
Install(r, track) ==
    /\ text' = r.text
    /\ cursor' = r.cursor
    /\ undo_stack' = r.undo_stack
    /\ redo_stack' = r.redo_stack
    /\ is_undoing' = r.is_undoing
    /\ is_read_only' = r.is_read_only
    /\ original_content' = r.original_content
    /\ current_file' = r.current_file
    /\ files' = r.files
    /\ hist' = IF track THEN [r.hist EXCEPT !.written = {}, !.tree_ops = 0,
                                           !.moved = <<>>]
                ELSE hist
    /\ UNCHANGED blockvars

\* MainWindow.__init__ ends with open_default_file, which selects home.md
StartedFrom(fs, track) ==
    LET r == on_file_selected(Constructed(fs), HomePath, "ok")
    IN /\ text = r.text
       /\ cursor = r.cursor
       /\ undo_stack = r.undo_stack
       /\ redo_stack = r.redo_stack
       /\ is_undoing = r.is_undoing
       /\ is_read_only = r.is_read_only
       /\ original_content = r.original_content
       /\ current_file = r.current_file
       /\ files = r.files
       /\ hist = IF track THEN [r.hist EXCEPT !.written = {}] ELSE NoHistory
       /\ blocks = ConstructedWidget.blocks
       /\ callout_blocks = ConstructedWidget.callout_blocks
       /\ ai_response_blocks = ConstructedWidget.ai_response_blocks
       /\ folded_callouts = ConstructedWidget.folded_callouts
       /\ manually_toggled_callouts = ConstructedWidget.manually_toggled_callouts
       /\ visible = ConstructedWidget.visible
       /\ internal_connected = ConstructedWidget.internal_connected

\* the key is one the model explores in the session s
KeyAllowed(s, key) == ~(Inserts(key) /\ ~s.is_read_only /\ Len(s.text) >= MaxLen)

KeyPress(key, track) ==
    /\ KeyAllowed(S, key)
    /\ Install(keyPressEvent(S, key), track)

MousePress(position, io1, io2, track) ==
    Install(mousePressEvent(S, position, io1, io2), track)

ToggleMode(track) == Install(toggle_mode(S), track)

SelectFile(file_path, io, track) ==
    Install(on_file_selected(S, file_path, io), track)

\* MainWindow.auto_save, on the 5 s timer
AutoSave(io, track) == Install(save_current_file(S, io), track)

\* a click that hits no link saves nothing
ClickOutcomes(position) ==
    IF LinkAt(S, position) # <<>> THEN SaveOutcomes ELSE {"ok"}

Init == \E fs \in InitialFiles : StartedFrom(fs, FALSE)

Next ==
    \/ \E key \in KeyInputs : KeyPress(key, FALSE)
    \/ \E position \in ClickPositions(text) :
          \E io1, io2 \in ClickOutcomes(position) :
             MousePress(position, io1, io2, FALSE)
    \/ ToggleMode(FALSE)
    \/ \E file_path \in DOMAIN files : \E io \in SaveOutcomes :
          SelectFile(file_path, io, FALSE)
    \/ \E io \in SaveOutcomes : AutoSave(io, FALSE)

Spec == Init /\ [][Next]_vars

\* the same machine, keeping the history
InitHist == \E fs \in InitialFiles : StartedFrom(fs, TRUE)

NextHist ==
    \/ \E key \in KeyInputs : KeyPress(key, TRUE)
    \/ \E position \in ClickPositions(text) :
          \E io1, io2 \in ClickOutcomes(position) :
             MousePress(position, io1, io2, TRUE)
    \/ ToggleMode(TRUE)
    \/ \E file_path \in DOMAIN files : \E io \in SaveOutcomes :
          SelectFile(file_path, io, TRUE)
    \/ \E io \in SaveOutcomes : AutoSave(io, TRUE)

SpecHist == InitHist /\ [][NextHist]_vars

----------------------------------------------------------------------------
(* The state machine of the block state *)

\* most blocks of a document explored
MaxBlocks == 3

PlainLine == <<"x">>

\* '> Thinking... ': a thinking header up to case and surrounding blanks
ThinkingLine ==
    <<">", " ", "T", "h", "i", "n", "k", "i", "n", "g", ".", ".", ".", " ">>

\* ' > q': a callout line that is no thinking header
QuoteLine == <<" ", ">", " ", "q">>

\* the lines of the notes explored
LineChoices ==
    {PlainLine, ThinkingLine, QuoteLine, START_MARKER, <<" ">> \o END_MARKER}

\* the notes home.md may hold at start-up
Docs == UNION { [1..n -> LineChoices] : n \in 1..MaxBlocks }

InstallBlocks(w) ==
    /\ blocks' = w.blocks
    /\ callout_blocks' = w.callout_blocks
    /\ ai_response_blocks' = w.ai_response_blocks
    /\ folded_callouts' = w.folded_callouts
    /\ manually_toggled_callouts' = w.manually_toggled_callouts
    /\ visible' = w.visible
    /\ internal_connected' = w.internal_connected
    /\ is_read_only' = w.is_read_only
    /\ hist' = w.hist
    /\ UNCHANGED sessionvars

\* MainWindow.__init__ ends with open_default_file, which selects home.md,
\* whose content is d
StartedWithBlocks(d) ==
    LET w == on_file_selected_blocks(ConstructedWidget, d)
        c == Constructed(HomePath :> <<>>)
    IN /\ blocks = w.blocks
       /\ callout_blocks = w.callout_blocks
       /\ ai_response_blocks = w.ai_response_blocks
       /\ folded_callouts = w.folded_callouts
       /\ manually_toggled_callouts = w.manually_toggled_callouts
       /\ visible = w.visible
       /\ internal_connected = w.internal_connected
       /\ is_read_only = w.is_read_only
       /\ text = c.text
       /\ cursor = c.cursor
       /\ undo_stack = c.undo_stack
       /\ redo_stack = c.redo_stack
       /\ is_undoing = c.is_undoing
       /\ original_content = c.original_content
       /\ current_file = HomePath
       /\ files = c.files
       /\ hist = w.hist

InitBlocks == \E d \in Docs : StartedWithBlocks(d)

ToggleModeBlocks == InstallBlocks(toggle_mode_blocks(W))

PressReturn(block_num) ==
    /\ ~is_read_only
    /\ BlockCount(W) < MaxBlocks
    /\ InstallBlocks(ReturnAtBlockStart(W, block_num))

PressDelete(block_num) ==
    /\ ~is_read_only
    /\ InstallBlocks(DeleteEmptyBlock(W, block_num))

ClickMargin(block_num) == InstallBlocks(MarginClick(W, block_num))

\* Qt delivers a paint event whenever the viewport needs repainting
Paint == InstallBlocks(paintEvent(W))

NextBlocks ==
    \/ ToggleModeBlocks
    \/ \E block_num \in 0..(Len(blocks) - 1) : PressReturn(block_num)
    \/ \E block_num \in 0..(Len(blocks) - 1) : PressDelete(block_num)
    \/ \E block_num \in 0..(Len(blocks) - 1) : ClickMargin(block_num)
    \/ Paint

SpecBlocks == InitBlocks /\ [][NextBlocks]_vars

\* The link functions, over notes whose text is put together from brackets,
\* a letter and whole links

MaxPieces == 4

LinkPieces == { <<"[">>, <<"]">>, <<"a">>, LinkA }

RECURSIVE JoinPieces(_)
JoinPieces(pieces) ==
    IF pieces = <<>> THEN <<>> ELSE Head(pieces) \o JoinPieces(Tail(pieces))

LinkTexts ==
    { JoinPieces(pieces) :
         pieces \in UNION { [1..n -> LinkPieces] : n \in 0..MaxPieces } }

\* the application started over a notes directory whose home.md holds one of
\* the texts; the mode button shows the note as display text and as raw text
InitLinks == \E t \in LinkTexts : StartedFrom((HomePath :> t), FALSE)

\* a left click at any offset of the text shown
LinkClick(position) == MousePress(position, "ok", "ok", FALSE)

NextLinks ==
    \/ ToggleMode(FALSE)
    \/ \E position \in 0..Len(text) : LinkClick(position)

SpecLinks == InitLinks /\ [][NextLinks]_vars

\* The notes directory under renames and moves, over a home note that holds
\* one link

MaxLinkText == 3

MaxNewName == 2

MaxTreeOps == 1

LinkTextChars == {"a", " ", "_", "/"}

NewNameChars == {"b", " ", "_"}

\* the link texts of the home note: the short texts over LinkTextChars, and
\* the name of note a written with its extension
LinkTextsOfHome ==
    UNION { [1..n -> LinkTextChars] : n \in 1..MaxLinkText }
        \cup {<<"a">> \o MdExt}

NewNames == UNION { [1..n -> NewNameChars] : n \in 1..MaxNewName }

\* the directories of the tree: the notes directory and those that hold a note
Directories(fs) ==
    {<<>>} \cup { dirname(file_path) : file_path \in DOMAIN fs }

\* the fields a handler leaves behind, with the paths it wrote
InstallFiles(r) ==
    /\ text' = r.text
    /\ cursor' = r.cursor
    /\ undo_stack' = r.undo_stack
    /\ redo_stack' = r.redo_stack
    /\ is_undoing' = r.is_undoing
    /\ is_read_only' = r.is_read_only
    /\ original_content' = r.original_content
    /\ current_file' = r.current_file
    /\ files' = r.files
    /\ hist' = [NoHistory EXCEPT !.written = r.hist.written,
                                 !.tree_ops = r.hist.tree_ops,
                                 !.moved = r.hist.moved]
    /\ UNCHANGED blockvars

\* what precedes the link in the home note: nothing, a link to note a, or a
\* link whose text opens with a bracket
HomeLeads == {<<>>, LinkA, <<"[">> \o LinkA}

InitFiles ==
    \E lead \in HomeLeads : \E link_text \in LinkTextsOfHome :
        StartedFrom((HomePath :> lead \o create_wiki_link(link_text)), FALSE)

ClickLinkFiles(position) ==
    InstallFiles(mousePressEvent(S, position, "ok", "ok"))

\* a rename or drop, counted, with the paths it moved a note between
TreeOp(r, old_path, moved) ==
    /\ hist.tree_ops < MaxTreeOps
    /\ InstallFiles([r EXCEPT !.hist.tree_ops = @ + 1,
                              !.hist.moved = IF moved.success
                                             THEN <<old_path, moved.new_path>>
                                             ELSE hist.moved])

RenameItem(item_path, new_name, io) ==
    /\ new_name # <<>>
    /\ TreeOp(rename_item(S, item_path, new_name, io), item_path,
              rename_note(S, item_path, new_name, io))

DropItem(source_path, target_dir, io) ==
    TreeOp(tree_drop_event(S, source_path, target_dir, io), source_path,
           move_note(S, source_path, target_dir, io))

NextFiles ==
    \/ \E position \in 0..Len(text) : ClickLinkFiles(position)
    \/ \E item_path \in DOMAIN files : \E new_name \in NewNames :
          \E io \in MoveOutcomes : RenameItem(item_path, new_name, io)
    \/ \E source_path \in DOMAIN files : \E target_dir \in Directories(files) :
          \E io \in MoveOutcomes : DropItem(source_path, target_dir, io)

SpecFiles == InitFiles /\ [][NextFiles]_vars

\* A note that holds the formatted insertion of an LLM response

MaxOutside == 2

MaxInside == 2

ResponseChars == {"x", "\n", ">"}

OutsideTexts == UNION { [1..n -> ResponseChars] : n \in 0..MaxOutside }

InsideTexts == UNION { [1..n -> ResponseChars] : n \in 0..MaxInside }

\* the text behind the wrapper
AfterTexts == {<<>>, <<"x">>}

\* the LLM responses: text, then maybe a <TOUSER> wrapper and text behind it
ResponseParts ==
    [before : OutsideTexts, wrapped : {FALSE}, inside : {<<>>}, after : {<<>>}]
        \cup [before : OutsideTexts, wrapped : {TRUE}, inside : InsideTexts,
              after : AfterTexts]

ResponseText(parts) ==
    IF parts.wrapped
    THEN parts.before \o TOUSER_OPEN \o parts.inside \o TOUSER_CLOSE \o parts.after
    ELSE parts.before

\* the note with the formatted response is opened
InitInsert ==
    \E parts \in ResponseParts :
        LET d == SplitLines(format_response_for_insertion(ResponseText(parts)), <<>>)
            w == on_file_selected_blocks(ConstructedWidget, d)
            c == Constructed(HomePath :> <<>>)
        IN /\ blocks = w.blocks
           /\ callout_blocks = w.callout_blocks
           /\ ai_response_blocks = w.ai_response_blocks
           /\ folded_callouts = w.folded_callouts
           /\ manually_toggled_callouts = w.manually_toggled_callouts
           /\ visible = w.visible
           /\ internal_connected = w.internal_connected
           /\ is_read_only = w.is_read_only
           /\ text = c.text
           /\ cursor = c.cursor
           /\ undo_stack = c.undo_stack
           /\ redo_stack = c.redo_stack
           /\ is_undoing = c.is_undoing
           /\ original_content = c.original_content
           /\ current_file = HomePath
           /\ files = c.files
           /\ hist = [NoHistory EXCEPT !.response = parts]

NextInsert ==
    \/ ToggleModeBlocks
    \/ \E block_num \in 0..(Len(blocks) - 1) : ClickMargin(block_num)
    \/ Paint

SpecInsert == InitInsert /\ [][NextInsert]_vars

\* The journal: entries are opened, edited, saved and deleted

JournalYear == 2025

JournalMonths == {5, 12}

\* the days the clock shows: one-digit and two-digit days, and the days of
\* each ordinal suffix
JournalDays == {1, 2, 3, 4, 11, 12, 13, 21, 22, 23, 31}

MaxNotes == 2

Dates ==
    { [year |-> JournalYear, month |-> m, day |-> d] :
        <<m, d>> \in { c \in JournalMonths \X JournalDays :
                         c[2] <= DaysInMonth(JournalYear, c[1]) } }

\* the handler's fields installed, with the paths it wrote
InstallWritten(r) ==
    /\ text' = r.text
    /\ cursor' = r.cursor
    /\ undo_stack' = r.undo_stack
    /\ redo_stack' = r.redo_stack
    /\ is_undoing' = r.is_undoing
    /\ is_read_only' = r.is_read_only
    /\ original_content' = r.original_content
    /\ current_file' = r.current_file
    /\ files' = r.files
    /\ hist' = [NoHistory EXCEPT !.written = r.hist.written]
    /\ UNCHANGED blockvars

InitJournal == \E fs \in InitialFiles : StartedFrom(fs, FALSE)

OpenTodayJournal(today) ==
    /\ \/ journal_file_of(today) \in DOMAIN files
       \/ Cardinality(DOMAIN files) < MaxNotes
    /\ InstallWritten(open_today_journal(S, today, "ok", "ok"))

\* the length of the open note when it was created
CreatedLen ==
    IF \E date \in Dates : journal_file_of(date) = current_file
    THEN Len(create_journal_header(
                CHOOSE date \in Dates : journal_file_of(date) = current_file))
    ELSE Len(LinkA)

\* the user deletes up to MaxLen characters of the open note
DeleteKey ==
    /\ current_file # None
    /\ Len(text) + MaxLen > CreatedLen
    /\ InstallWritten(keyPressEvent(S, "Delete"))

ToggleModeJournal == InstallWritten(toggle_mode(S))

AutoSaveJournal == InstallWritten(auto_save(S, "ok"))

DeleteItem(item_path) ==
    /\ ~is_in_trash(item_path)
    /\ InstallWritten(delete_item(S, item_path, "ok"))

NextJournal ==
    \/ \E today \in Dates : OpenTodayJournal(today)
    \/ DeleteKey
    \/ ToggleModeJournal
    \/ AutoSaveJournal
    \/ \E item_path \in DOMAIN files : DeleteItem(item_path)

SpecJournal == InitJournal /\ [][NextJournal]_vars

\* The file tree over a notes directory that holds notes next to home.md:
\* notes are renamed, dropped on directories, selected, and the timer saves

NoteA == <<"a">> \o MdExt

NoteInD == <<"d", "/", "a">> \o MdExt

\* the notes directory at start-up: home.md with a link to note a, note a,
\* and a note of the same name in directory d that links to note a as well
TreeFiles == (HomePath :> LinkA) @@ (NoteA :> <<"x">>) @@ (NoteInD :> LinkA)

InitTree == StartedFrom(TreeFiles, FALSE)

SelectFileTree(file_path) == InstallFiles(on_file_selected(S, file_path, "ok"))

ToggleModeTree == InstallFiles(toggle_mode(S))

AutoSaveTree == InstallFiles(auto_save(S, "ok"))

\* the directories of the tree that can be renamed: not the notes directory
\* itself, not the special directories
PlainDirectories(fs) == Directories(fs) \ {<<>>, TrashDir, JournalDir}

RenameDirectory(item_path, new_name, io) ==
    /\ hist.tree_ops < MaxTreeOps
    /\ InstallFiles([rename_item_directory(S, item_path, new_name, io)
                        EXCEPT !.hist.tree_ops = @ + 1])

DeleteItemTree(item_path) ==
    /\ ~is_in_trash(item_path)
    /\ InstallFiles(delete_item(S, item_path, "ok"))

NextTree ==
    \/ \E item_path \in DOMAIN files : \E new_name \in NewNames :
          \E io \in MoveOutcomes : RenameItem(item_path, new_name, io)
    \/ \E source_path \in DOMAIN files : \E target_dir \in Directories(files) :
          \E io \in MoveOutcomes : DropItem(source_path, target_dir, io)
    \/ \E file_path \in DOMAIN files : SelectFileTree(file_path)
    \/ ToggleModeTree
    \/ AutoSaveTree
    \/ \E item_path \in PlainDirectories(files) : \E new_name \in NewNames :
          \E io \in MoveOutcomes : RenameDirectory(item_path, new_name, io)
    \/ \E item_path \in DOMAIN files : DeleteItemTree(item_path)

SpecTree == InitTree /\ [][NextTree]_vars

----------------------------------------------------------------------------
(* Properties of the undo/redo engine *)

\* the raw text of the open note: original_content while the editor shows
\* the display text, the editor text in edit mode
RawDoc == IF is_read_only THEN original_content ELSE text

\* the session r has the live text, cursor and stacks of the session s
SameEditor(r, s) ==
    /\ r.text = s.text
    /\ r.cursor = s.cursor
    /\ r.undo_stack = s.undo_stack
    /\ r.redo_stack = s.redo_stack

\* the snapshot save_undo_state takes of the session r
Snapshot(r) == [text |-> r.text, cursor_position |-> r.cursor]

\* the keys of KeyInputs that edit the text, where the model explores them
EditKeys == { key \in KeyInputs \ {"Ctrl+Z", "Ctrl+Y"} : KeyAllowed(S, key) }

\* a state of the round trip: edit mode, a text A recorded below a different
\* text B that is recorded on top and live, nothing undone
RecordedPair ==
    /\ ~is_read_only
    /\ Len(undo_stack) >= 2
    /\ redo_stack = <<>>
    /\ Top(undo_stack).text = text
    /\ undo_stack[Len(undo_stack) - 1].text # text

\* C1: with a text A recorded and then a different text B recorded on top of
\* it, Ctrl+Z makes the live text A, and Ctrl+Y after it makes the live text B
\* again and leaves undo_stack and redo_stack as they were before the undo.
C1_UndoRedoRoundTrip ==
    RecordedPair =>
        LET undone == keyPressEvent(S, "Ctrl+Z")
            redone == keyPressEvent(undone, "Ctrl+Y")
        IN /\ undone.text = undo_stack[Len(undo_stack) - 1].text
           /\ redone.text = text
           /\ redone.undo_stack = undo_stack
           /\ redone.redo_stack = redo_stack

\* the note was loaded with the text of home.md, switched to edit mode (which
\* records it) and edited to another text that is recorded and live
C1_Witness ==
    /\ RecordedPair
    /\ Len(undo_stack) = 2
    /\ undo_stack[1] = [text |-> LinkA, cursor_position |-> 0]

\* C2: undo with at most one snapshot on undo_stack and redo with an empty
\* redo_stack change neither the text, the cursor nor the stacks (and are
\* defined there); undo never empties a non-empty undo_stack.
C2_UnderflowIsNoOp ==
    /\ Len(undo_stack) <= 1 =>
          /\ SameEditor(undo(S), S)
          /\ SameEditor(keyPressEvent(S, "Ctrl+Z"), S)
    /\ redo_stack = <<>> =>
          /\ SameEditor(redo(S), S)
          /\ SameEditor(keyPressEvent(S, "Ctrl+Y"), S)
    /\ undo_stack # <<>> => keyPressEvent(S, "Ctrl+Z").undo_stack # <<>>

\* edit mode with exactly the current state recorded and nothing to redo,
\* after an edit has been recorded and evicted or the note just switched to
C2_Witness ==
    /\ ~is_read_only
    /\ Len(undo_stack) = 1
    /\ Top(undo_stack).text = text
    /\ redo_stack = <<>>

\* C3: a key press that pushes a new snapshot leaves redo_stack empty, so
\* Ctrl+Y after it changes nothing: the undone states are gone.
C3_FreshEditClearsRedo ==
    \A key \in EditKeys :
        LET edited == keyPressEvent(S, key)
        IN edited.undo_stack # undo_stack =>
              /\ edited.redo_stack = <<>>
              /\ SameEditor(keyPressEvent(edited, "Ctrl+Y"), edited)

\* an undo has happened (redo_stack holds the undone state) and a key is
\* pressed now that records a new text
C3_Witness ==
    /\ ~is_read_only
    /\ redo_stack # <<>>
    /\ \E key \in EditKeys :
          /\ keyPressEvent(S, key).text # text
          /\ keyPressEvent(S, key).undo_stack # undo_stack

\* C4: save_undo_state called while the live text equals the text of the top
\* snapshot changes neither stack, also when the cursor is elsewhere than in
\* that snapshot; so a structural key that changes no text records nothing.
C4_SameTextRecordsNothing ==
    (undo_stack # <<>> /\ Top(undo_stack).text = text) =>
        /\ save_undo_state(S).undo_stack = undo_stack
        /\ save_undo_state(S).redo_stack = redo_stack
        /\ cursor = Len(text) =>
              /\ keyPressEvent(S, "Delete").undo_stack = undo_stack
              /\ keyPressEvent(S, "Delete").redo_stack = redo_stack

\* the live text is the top snapshot's, the cursor is not, and there is a
\* redo_stack to lose
C4_Witness ==
    /\ undo_stack # <<>>
    /\ Top(undo_stack).text = text
    /\ Top(undo_stack).cursor_position # cursor
    /\ cursor = Len(text)
    /\ redo_stack # <<>>

\* C5: neither stack ever holds more than max_undo_items snapshots; a push
\* onto a full undo_stack drops exactly its bottom snapshot and puts the new
\* one on top.
C5_StacksBounded ==
    /\ Len(undo_stack) <= max_undo_items
    /\ Len(redo_stack) <= max_undo_items
    /\ \A key \in EditKeys :
          LET edited == keyPressEvent(S, key)
          IN (Len(undo_stack) = max_undo_items /\ Top(undo_stack).text = text
                /\ edited.text # text /\ ~is_read_only) =>
                   edited.undo_stack = Append(Tail(undo_stack), Snapshot(edited))

\* undo_stack is full in edit mode and a key is pressed that changes the text
C5_Witness ==
    /\ ~is_read_only
    /\ Len(undo_stack) = max_undo_items
    /\ Top(undo_stack).text = text
    /\ \E key \in EditKeys : keyPressEvent(S, key).text # text

\* C6: installing a restored state records nothing: Ctrl+Z with k >= 2
\* snapshots moves exactly the top one to redo_stack, Ctrl+Y moves it back,
\* and is_undoing is false whenever a handler has returned.
C6_RestoreRecordsNothing ==
    /\ ~is_undoing
    /\ (~is_read_only /\ Len(undo_stack) >= 2) =>
          LET undone == keyPressEvent(S, "Ctrl+Z")
          IN /\ undone.undo_stack = Pop(undo_stack)
             /\ undone.redo_stack = Append(redo_stack, Top(undo_stack))
             /\ ~undone.is_undoing
    /\ (~is_read_only /\ redo_stack # <<>>) =>
          LET redone == keyPressEvent(S, "Ctrl+Y")
          IN /\ redone.undo_stack = Append(undo_stack, Top(redo_stack))
             /\ redone.redo_stack = Pop(redo_stack)
             /\ ~redone.is_undoing

\* an undo has run (its snapshot is on redo_stack, the restored text is
\* live) and two snapshots are left, so that both Ctrl+Z and Ctrl+Y act
C6_Witness ==
    /\ ~is_read_only
    /\ redo_stack # <<>>
    /\ undo_stack # <<>>
    /\ Top(undo_stack).text = text
    /\ Top(redo_stack).text # text

\* the printable keys of KeyInputs
PrintableKeys == { key \in KeyInputs : Inserts(key) /\ key \notin StructuralKeys }

\* the key press that led from the session s to the session r pushed a
\* snapshot of the text it produced
Pushed(s, r) ==
    /\ r.undo_stack # s.undo_stack
    /\ r.undo_stack # <<>>
    /\ Top(r.undo_stack) = Snapshot(r)

\* what pushing the snapshot of r onto stack leaves, eviction included
Push(stack, r) ==
    IF Len(stack) >= max_undo_items
    THEN Append(Tail(stack), Snapshot(r))
    ELSE Append(stack, Snapshot(r))

\* C7, as the specification states it: two printable characters typed one
\* after the other in edit mode, no structural key between them, do not push
\* a snapshot each.
C7_TypingPushesNoSnapshotPerKey ==
    ~is_read_only =>
        \A k1, k2 \in PrintableKeys :
            LET r1 == keyPressEvent(S, k1)
                r2 == keyPressEvent(r1, k2)
            IN (KeyAllowed(S, k1) /\ KeyAllowed(r1, k2)) =>
                  ~(Pushed(S, r1) /\ Pushed(r1, r2))

\* C7, amended: with a note open in edit mode every printable key press
\* pushes one snapshot, that of the text it produced (the oldest snapshot is
\* evicted from a full stack), so a run of typed characters pushes one
\* snapshot per character.
C7_TypingPushesSnapshotPerKey ==
    (~is_read_only /\ current_file # None) =>
        \A k1, k2 \in PrintableKeys :
            LET r1 == keyPressEvent(S, k1)
                r2 == keyPressEvent(r1, k2)
            IN /\ KeyAllowed(S, k1) =>
                     /\ Pushed(S, r1)
                     /\ r1.undo_stack = Push(undo_stack, r1)
               /\ (KeyAllowed(S, k1) /\ KeyAllowed(r1, k2)) =>
                     /\ Pushed(r1, r2)
                     /\ r2.undo_stack = Push(r1.undo_stack, r2)

\* a character has just been typed and recorded (the top snapshot is the text
\* below it with one character more) and another one can be typed
C7_Witness ==
    /\ ~is_read_only
    /\ Len(undo_stack) = 2
    /\ Top(undo_stack).text = text
    /\ Len(text) = Len(undo_stack[1].text) + 1
    /\ \E key \in PrintableKeys : KeyAllowed(S, key)

\* C8: selecting a note, in the tree or by a link, leaves redo_stack empty
\* and undo_stack holding at most the snapshot of the text just loaded, so
\* that neither undo nor redo changes anything afterwards: no text of the
\* note open before can come back.
C8_HistoryDoesNotSpanFiles ==
    /\ \A file_path \in DOMAIN files : \A io \in SaveOutcomes :
          LET r == on_file_selected(S, file_path, io)
          IN /\ r.redo_stack = <<>>
             /\ r.undo_stack =
                   IF r.is_read_only THEN <<>>
                   ELSE <<[text |-> r.files[file_path], cursor_position |-> 0]>>
             /\ SameEditor(undo(r), r)
             /\ SameEditor(redo(r), r)
             /\ SameEditor(keyPressEvent(r, "Ctrl+Z"), r)
             /\ SameEditor(keyPressEvent(r, "Ctrl+Y"), r)
    /\ \A position \in ClickPositions(text) : \A io1, io2 \in SaveOutcomes :
          LET r == mousePressEvent(S, position, io1, io2)
          IN LinkAt(S, position) # <<>> =>
                /\ r.redo_stack = <<>>
                /\ Len(r.undo_stack) <= 1
                /\ SameEditor(keyPressEvent(r, "Ctrl+Z"), r)
                /\ SameEditor(keyPressEvent(r, "Ctrl+Y"), r)

\* the note a link led to is open in edit mode with an undone state on
\* redo_stack, and home.md is there to be selected
C8_Witness ==
    /\ ~is_read_only
    /\ current_file # HomePath
    /\ HomePath \in DOMAIN files
    /\ undo_stack # <<>>
    /\ redo_stack # <<>>

\* C32: whenever a note is open in edit mode and no handler is running,
\* undo_stack is not empty and the text of its top snapshot is the live text
\* of the editor, whatever keys, undos, redos, evictions, mode toggles and
\* file switches came before.
C32_TopIsCurrentState ==
    (~is_read_only /\ current_file # None) =>
        /\ ~is_undoing
        /\ undo_stack # <<>>
        /\ Top(undo_stack).text = text

\* edit mode after an undo: the snapshot now on top was below the undone one
\* and is the live text, and its text is not what the note's file holds
C32_Witness ==
    /\ ~is_read_only
    /\ current_file # None
    /\ redo_stack # <<>>
    /\ Len(undo_stack) = 1
    /\ Top(undo_stack).text = text
    /\ text # files[current_file]

\* the number of snapshots the two stacks of the session r hold
Held(r) == Len(r.undo_stack) + Len(r.redo_stack)

\* C33: the two stacks never hold more than max_undo_items snapshots between
\* them: undo and redo move one snapshot from one stack to the other or do
\* nothing, and a call of save_undo_state that pushes leaves redo_stack empty.
C33_StacksHoldAtMostMax ==
    /\ Held(S) <= max_undo_items
    /\ Held(undo(S)) = Held(S)
    /\ Held(redo(S)) = Held(S)
    /\ Len(undo(S).undo_stack) \in {Len(undo_stack), Len(undo_stack) - 1}
    /\ Len(redo(S).redo_stack) \in {Len(redo_stack), Len(redo_stack) - 1}
    /\ \A key \in KeyInputs :
          LET r == keyPressEvent(S, key)
          IN /\ KeyAllowed(S, key) => Held(r) <= max_undo_items
             /\ key \in {"Ctrl+Z", "Ctrl+Y"} => Held(r) = Held(S)
    /\ save_undo_state(S).undo_stack # undo_stack =>
          save_undo_state(S).redo_stack = <<>>

\* the stacks hold max_undo_items snapshots between them, one of them undone:
\* a redo has a snapshot to move and no room to add one
C33_Witness ==
    /\ ~is_read_only
    /\ Len(undo_stack) + Len(redo_stack) = max_undo_items
    /\ redo_stack # <<>>
    /\ undo_stack # <<>>

\* neighbouring snapshots of the stack differ in text
NeighboursDiffer(stack) ==
    \A k \in 1..(Len(stack) - 1) : stack[k].text # stack[k + 1].text

\* C34: no two neighbouring snapshots of the history have the same text:
\* neighbours on undo_stack differ, neighbours on redo_stack differ, and the
\* top of undo_stack differs from the top of redo_stack; so in edit mode a
\* Ctrl+Z or Ctrl+Y that moves a snapshot changes the live text.
C34_NeighbouringSnapshotsDiffer ==
    /\ NeighboursDiffer(undo_stack)
    /\ NeighboursDiffer(redo_stack)
    /\ (undo_stack # <<>> /\ redo_stack # <<>>) =>
          Top(undo_stack).text # Top(redo_stack).text
    /\ ~is_read_only =>
          \A key \in {"Ctrl+Z", "Ctrl+Y"} :
              LET r == keyPressEvent(S, key)
              IN r.undo_stack # undo_stack => r.text # text

\* edit mode with two snapshots undone one after the other: redo_stack has a
\* neighbour pair, the tops of the two stacks are there to compare, and
\* Ctrl+Y moves a snapshot
C34_Witness ==
    /\ ~is_read_only
    /\ undo_stack # <<>>
    /\ Len(redo_stack) >= 2

\* every key the handler tells apart: the keys explored and the other
\* structural keys
AllKeys == KeyInputs \cup StructuralKeys

\* C35: in read-only mode no key press changes undo_stack, redo_stack or the
\* text, so that the bracket-stripped text the read-only editor shows is
\* never recorded as a snapshot.
C35_ReadOnlyKeysChangeNothing ==
    is_read_only =>
        \A key \in AllKeys :
            LET r == keyPressEvent(S, key)
            IN /\ r.undo_stack = undo_stack
               /\ r.redo_stack = redo_stack
               /\ r.text = text

----------------------------------------------------------------------------
(* Properties of what is stored, over the history SpecHist keeps *)

\* C9: the bracket-stripped display text is never written to the note's file:
\* as long as no key press has changed the text since the note was loaded,
\* the file of the open note holds the raw text that was loaded (or nothing,
\* after a write that failed behind the truncating open).
C9_DisplayTextNeverStored ==
    (current_file # None /\ ~hist.edited) =>
        files[current_file] \in {hist.loaded, <<>>}

\* C10: a failed save loses no data: when the last write of a handler failed
\* and the file does not hold the text it was to store, that text is still
\* the document of the note in memory.
C10_FailedSaveKeepsDocument ==
    (hist.save_failed /\ files[hist.unsaved_path] # hist.unsaved) =>
        /\ current_file = hist.unsaved_path
        /\ RawDoc = hist.unsaved

----------------------------------------------------------------------------
(* Properties of the block state *)

\* the block numbers of the document
BlockNums == 0..(Len(blocks) - 1)

\* the maps a classification of the present document gives
FreshCallouts(w) == find_callout_blocks(w).callout_blocks

FreshAi(w) == find_ai_response_blocks(w).ai_response_blocks

\* the maps of the widget are those of the present document
MapsFresh ==
    /\ callout_blocks = FreshCallouts(W)
    /\ ai_response_blocks = FreshAi(W)

\* block block_num is the header of a '> thinking...' callout
ThinkingHeaderAt(block_num) ==
    /\ block_num \in DOMAIN callout_blocks
    /\ callout_blocks[block_num].start = block_num
    /\ Lower(Strip(BlockText(W, block_num))) = THINKING_HEADER

\* C11: a '> thinking...' callout is folded by the classification that first
\* meets it, and once the user has unfolded it in the margin, lines put in
\* above it and later classifications of the text leave it unfolded.
C11_UnfoldedThinkingStaysUnfolded ==
    /\ \A block_num \in BlockNums :
          (MapsFresh /\ ThinkingHeaderAt(block_num)
             /\ block_num \notin manually_toggled_callouts) =>
                block_num \in folded_callouts
    /\ hist.unfolded # NoStart => hist.unfolded \notin folded_callouts

\* block block_num lies strictly inside an AI-response range
InsideAssistant(block_num) ==
    /\ block_num \in DOMAIN ai_response_blocks
    /\ ai_response_blocks[block_num].start < block_num
    /\ block_num < ai_response_blocks[block_num].end

\* C12, as the specification states it: a key press that inserts or deletes
\* strictly inside an AI-response range leaves the document as it is.
C12_AssistantRegionRejectsEdits ==
    \A block_num \in BlockNums :
        (~is_read_only /\ MapsFresh /\ InsideAssistant(block_num)) =>
            /\ ReturnAtBlockStart(W, block_num).blocks = blocks
            /\ DeleteEmptyBlock(W, block_num).blocks = blocks

\* C12, amended: the AI-response ranges do not protect anything: a key press
\* strictly inside one edits the document as it does anywhere else (Return
\* puts a block in, Delete on an empty block takes it out).
C12_AssistantRegionIsEditable ==
    \A block_num \in BlockNums :
        (~is_read_only /\ MapsFresh /\ InsideAssistant(block_num)) =>
            /\ ReturnAtBlockStart(W, block_num).blocks =
                  InsertAt(blocks, block_num + 1, <<>>)
            /\ BlockText(W, block_num) = <<>> =>
                  DeleteEmptyBlock(W, block_num).blocks =
                     RemoveAt(blocks, block_num + 1)

\* edit mode, the maps fresh, an empty block strictly inside an AI-response
\* range: both Return and Delete act on it
C12_Witness ==
    /\ ~is_read_only
    /\ MapsFresh
    /\ \E block_num \in BlockNums :
          /\ InsideAssistant(block_num)
          /\ BlockText(W, block_num) = <<>>

\* the trimmed text of block block_num is one of the two markers
IsMarkerLine(w, block_num) ==
    Strip(BlockText(w, block_num)) \in {START_MARKER, END_MARKER}

\* block block_num is a line of a callout: its trimmed text starts with '>'
IsCalloutLine(w, block_num) ==
    StartsWith(Strip(BlockText(w, block_num)), <<">">>)

\* block header is the header of the callout block block_num lies in: the
\* first line of the unbroken run of callout lines around block_num
IsHeaderOf(w, header, block_num) ==
    /\ header <= block_num
    /\ \A j \in header..block_num : IsCalloutLine(w, j)
    /\ header = 0 \/ ~IsCalloutLine(w, header - 1)

\* isVisible(line) = not (isMarkerLine(line) or (inFoldedCallout(line) and
\* not isHeaderLine(line))), read off the text and the folded set of w
VisibilityDerived(w) ==
    \A block_num \in 0..(BlockCount(w) - 1) :
        w.visible[block_num + 1] <=>
            ~(\/ IsMarkerLine(w, block_num)
              \/ \E header \in w.folded_callouts :
                    /\ IsHeaderOf(w, header, block_num)
                    /\ header # block_num)

\* C13: whenever visibility is updated - by the classification of the text or
\* by a fold toggle - a line is hidden exactly if it is a marker line (paired
\* or not) or a line other than the header of a folded callout; every other
\* line, every callout header included, is visible.
C13_VisibilityDerivation ==
    /\ VisibilityDerived(on_internal_text_changed(W))
    /\ \A block_num \in DOMAIN callout_blocks :
          MapsFresh => VisibilityDerived(toggle_callout_fold(W, block_num))
    /\ \A block_num \in BlockNums :
          IsCalloutLine(W, block_num) /\ ~IsMarkerLine(W, block_num) /\
          IsHeaderOf(W, block_num, block_num) =>
             on_internal_text_changed(W).visible[block_num + 1]

\* edit mode: a folded callout with a line under its header and a marker that
\* has no partner, in a document whose maps are up to date
C13_Witness ==
    /\ ~is_read_only
    /\ MapsFresh
    /\ \E header \in folded_callouts :
          /\ header + 1 \in BlockNums
          /\ IsHeaderOf(W, header, header + 1)
    /\ \E block_num \in BlockNums :
          /\ IsMarkerLine(W, block_num)
          /\ block_num \notin DOMAIN ai_response_blocks

\* the trimmed text of block block_num is the START marker
IsStartLine(w, block_num) == Strip(BlockText(w, block_num)) = START_MARKER

\* the trimmed text of block block_num is the END marker
IsEndLine(w, block_num) == Strip(BlockText(w, block_num)) = END_MARKER

\* the block number of the next START marker after block start, or the block
\* count when there is none
NextStart(w, start) ==
    LET later == { j \in (start + 1)..(BlockCount(w) - 1) : IsStartLine(w, j) }
    IN IF later = {} THEN BlockCount(w)
       ELSE CHOOSE j \in later : \A other \in later : j <= other

\* block start is a START marker with no END marker before the next START
\* marker or the end of the document
Unterminated(w, start) ==
    /\ IsStartLine(w, start)
    /\ \A j \in (start + 1)..(NextStart(w, start) - 1) : ~IsEndLine(w, j)

\* C14 as stated: an unterminated START marker opens an assistant region that
\* runs to the last line of the document.
C14_UnterminatedStartRunsToEnd ==
    LET after == on_internal_text_changed(W)
    IN \A start \in BlockNums :
          Unterminated(W, start) =>
             \A block_num \in start..(BlockCount(W) - 1) :
                /\ block_num \in DOMAIN after.ai_response_blocks
                /\ after.ai_response_blocks[block_num].start = start

\* C14, amended: an unterminated START marker opens no region - neither the
\* marker nor any line from it to the next START marker or the end of the
\* document is recorded in the AI-response map; the marker line itself is
\* hidden all the same.
C14_UnterminatedStartOpensNothing ==
    LET after == on_internal_text_changed(W)
    IN \A start \in BlockNums :
          Unterminated(W, start) =>
             /\ \A block_num \in start..(NextStart(W, start) - 1) :
                   block_num \notin DOMAIN after.ai_response_blocks
             /\ ~after.visible[start + 1]

\* edit mode, maps up to date: a START marker without its END, and a line
\* under it
C14_Witness ==
    /\ ~is_read_only
    /\ MapsFresh
    /\ \E start \in BlockNums :
          /\ Unterminated(W, start)
          /\ start + 1 \in BlockNums
          /\ ~IsStartLine(W, start + 1)

\* the ranges of one map are well formed in a document of n blocks: a
\* recorded line lies in its range, and every line of the range is recorded
\* with the same range, so that two ranges of the map never overlap
RangesWellFormed(map, n) ==
    \A line \in DOMAIN map :
        /\ line \in 0..(n - 1)
        /\ map[line].start <= line /\ line <= map[line].end
        /\ map[line].end <= n - 1
        /\ \A other \in map[line].start..map[line].end :
              other \in DOMAIN map /\ map[other] = map[line]

\* C15 as stated: the ranges partition the lines, so no line is at once in a
\* callout range and in an AI-response range.
C15_RangesNeverOverlap ==
    LET after == paintEvent(W)
    IN /\ RangesWellFormed(after.callout_blocks, BlockCount(W))
       /\ RangesWellFormed(after.ai_response_blocks, BlockCount(W))
       /\ DOMAIN after.callout_blocks \cap DOMAIN after.ai_response_blocks = {}

\* C15, amended: within one kind each recorded line maps to a single range
\* with start <= line <= end and ranges do not overlap; the two kinds are
\* classified independently of each other - every callout line is in a callout
\* range, also between a START marker and its END marker, where it is in an
\* AI-response range as well - and a line that is neither a callout line nor
\* within a marker pair is in no range.
C15_RangesWellFormedPerKind ==
    LET after == paintEvent(W)
    IN /\ RangesWellFormed(after.callout_blocks, BlockCount(W))
       /\ RangesWellFormed(after.ai_response_blocks, BlockCount(W))
       /\ DOMAIN after.callout_blocks =
             { line \in BlockNums : IsCalloutLine(W, line) }
       /\ \A line \in DOMAIN after.ai_response_blocks :
             /\ IsStartLine(W, after.ai_response_blocks[line].start)
             /\ IsEndLine(W, after.ai_response_blocks[line].end)

\* edit mode, maps up to date: a callout line between a START marker and its
\* END marker, recorded in both maps
C15_Witness ==
    /\ ~is_read_only
    /\ MapsFresh
    /\ \E line \in BlockNums :
          /\ line \in DOMAIN callout_blocks
          /\ line \in DOMAIN ai_response_blocks

\* C16: in edit mode, after any sequence of operations, the callout map, the
\* AI-response map and the visibility of the lines are those the
\* classification of the current text gives: every text change has been
\* followed by on_internal_text_changed.
C16_MapsFollowEveryTextChange ==
    ~is_read_only => /\ MapsFresh
                     /\ VisibilityDerived(W)

\* C17: toggle_callout_fold on a line of a callout flips the fold state of
\* that callout - and of no other - and adds the callout's first line to the
\* manually toggled set; a second toggle restores the folded set; on a line
\* that is in no callout it changes neither set.
C17_ToggleFlipsAndRecords ==
    \A block_num \in BlockNums :
        LET once  == toggle_callout_fold(W, block_num)
            twice == toggle_callout_fold(once, block_num)
        IN IF block_num \in DOMAIN callout_blocks
           THEN LET start_block == callout_blocks[block_num].start
                IN /\ (start_block \in once.folded_callouts) <=>
                         (start_block \notin folded_callouts)
                   /\ once.folded_callouts \ {start_block} =
                         folded_callouts \ {start_block}
                   /\ once.manually_toggled_callouts =
                         manually_toggled_callouts \cup {start_block}
                   /\ twice.folded_callouts = folded_callouts
                   /\ twice.manually_toggled_callouts =
                         once.manually_toggled_callouts
           ELSE /\ once.folded_callouts = folded_callouts
                /\ once.manually_toggled_callouts = manually_toggled_callouts

\* edit mode, a callout toggled before: a line of a callout that is not its
\* first line, and a line that is in no callout
C17_Witness ==
    /\ ~is_read_only
    /\ manually_toggled_callouts # {}
    /\ \E block_num \in DOMAIN callout_blocks :
          /\ block_num \in BlockNums
          /\ callout_blocks[block_num].start # block_num
    /\ \E block_num \in BlockNums : block_num \notin DOMAIN callout_blocks

\* C36: once the maps have been built from the present document, every line
\* number in folded_callouts and in manually_toggled_callouts is the first
\* line of a callout of that document: an edit that deletes a callout or
\* moves it to other lines leaves no entry behind for the line it started at.
C36_FoldEntriesAreCalloutStarts ==
    MapsFresh =>
        \A block_num \in folded_callouts \cup manually_toggled_callouts :
            /\ block_num \in DOMAIN callout_blocks
            /\ callout_blocks[block_num].start = block_num

----------------------------------------------------------------------------
(* Properties of the link functions *)

\* the offsets of the four bracket characters of every link found in t
BracketOffsets(t) ==
    LET links == find_all_links(t)
    IN { o \in 0..(Len(t) - 1) :
           \E k \in 1..Len(links) :
              o \in {links[k][1], links[k][1] + 1,
                     links[k][2] - 2, links[k][2] - 1} }

\* t without the bracket characters of its links: every other character of
\* t, in order
WithoutBrackets(t) ==
    LET kept == (0..(Len(t) - 1)) \ BracketOffsets(t)
    IN [k \in 1..Cardinality(kept) |->
          Char(t, CHOOSE o \in kept :
                     Cardinality({ p \in kept : p < o }) = k - 1)]

\* C18: the display text of a raw text t is t without the two opening and the
\* two closing brackets of every link found in it - every other character
\* copied verbatim and in order - so its length is Len(t) minus four times
\* the number of links; it is what the editor shows in read-only mode.
C18_DisplayDropsFourPerLink ==
    LET display == remove_link_brackets(RawDoc)[1]
    IN /\ Len(display) = Len(RawDoc) - 4 * Len(find_all_links(RawDoc))
       /\ display = WithoutBrackets(RawDoc)
       /\ is_read_only => text = display

\* read-only mode again after a look at the raw text: a note with two links,
\* a character between them and a bracket that belongs to no link
C18_Witness ==
    /\ is_read_only
    /\ undo_stack # <<>>
    /\ Len(find_all_links(original_content)) = 2
    /\ find_all_links(original_content)[1][2] <
          find_all_links(original_content)[2][1]
    /\ \E o \in 1..Len(text) : text[o] \in {"[", "]"}

\* a link can be read at offset i of t: "[[", then one or more characters
\* other than "]", then "]]"
WellFormedAt(t, i) ==
    \E j \in (i + 3)..(Len(t) - 2) :
        /\ Char(t, i) = "[" /\ Char(t, i + 1) = "["
        /\ Char(t, j) = "]" /\ Char(t, j + 1) = "]"
        /\ \A p \in (i + 2)..(j - 1) : Char(t, p) # "]"

\* C19: find_all_links returns the well-formed links of the text from left to
\* right: every span is "[[" linkText "]]" in the text, with a link text free
\* of "]"; the spans are in strictly increasing order and do not overlap;
\* every place where a link can be read is the start of a span or lies within
\* one; a text without "]]" gives no span.
C19_SpansAreTheLinksInOrder ==
    LET t == RawDoc
        spans == find_all_links(t)
    IN /\ \A k \in 1..Len(spans) :
             /\ 0 <= spans[k][1] /\ spans[k][1] < spans[k][2]
             /\ spans[k][2] <= Len(t)
             /\ Slice(t, spans[k][1], spans[k][2]) =
                   <<"[", "[">> \o spans[k][3] \o <<"]", "]">>
             /\ spans[k][3] # <<>>
             /\ \A p \in 1..Len(spans[k][3]) : spans[k][3][p] # "]"
       /\ \A k \in 1..(Len(spans) - 1) : spans[k][2] <= spans[k + 1][1]
       /\ \A i \in 0..(Len(t) - 1) :
             WellFormedAt(t, i) =>
                \E k \in 1..Len(spans) : spans[k][1] <= i /\ i < spans[k][2]
       /\ (\A i \in 0..(Len(t) - 2) :
              ~(Char(t, i) = "]" /\ Char(t, i + 1) = "]")) => spans = <<>>

\* edit mode: a note with a link, a place within that link where a link can
\* be read as well, and a "[[" after it that is never closed
C19_Witness ==
    LET spans == find_all_links(RawDoc)
    IN /\ ~is_read_only
       /\ Len(spans) = 1
       /\ WellFormedAt(RawDoc, spans[1][1] + 1)
       /\ spans[1][2] + 1 < Len(RawDoc)
       /\ Char(RawDoc, spans[1][2]) = "["
       /\ Char(RawDoc, spans[1][2] + 1) = "["

\* C20: every link position remove_link_brackets returns satisfies
\* end - start = Len(text) = (original_end - original_start) - 4, and the
\* display text from start to end is the link text.
C20_DisplaySpansMatchLinkText ==
    LET r == remove_link_brackets(RawDoc)
        display == r[1]
        link_positions == r[2]
    IN \A k \in 1..Len(link_positions) :
          LET p == link_positions[k]
          IN /\ p.end - p.start = Len(p.text)
             /\ Len(p.text) = (p.original_end - p.original_start) - 4
             /\ 0 <= p.start /\ p.end <= Len(display)
             /\ Slice(display, p.start, p.end) = p.text

\* read-only mode again after a look at the raw text: a note with two links,
\* the second of which is not where it was in the raw text
C20_Witness ==
    LET link_positions == remove_link_brackets(original_content)[2]
    IN /\ is_read_only
       /\ undo_stack # <<>>
       /\ Len(link_positions) = 2
       /\ link_positions[2].start # link_positions[2].original_start
       /\ link_positions[1].start > 0

\* the spans of the display text: <<start, end, link text>> of each link
\* position remove_link_brackets returns for the raw text t
DisplaySpans(t) ==
    LET link_positions == remove_link_brackets(t)[2]
    IN [k \in 1..Len(link_positions) |->
          <<link_positions[k].start, link_positions[k].end,
            link_positions[k].text>>]

\* the link text of the leftmost span that holds position, both ends of a
\* span included; <<>> when no span holds it
LeftmostHit(position, links) ==
    LET holding == { k \in 1..Len(links) :
                        links[k][1] <= position /\ position <= links[k][2] }
    IN IF holding = {} THEN <<>>
       ELSE <<links[CHOOSE k \in holding : \A other \in holding : k <= other][3]>>

\* C21: the hit test takes both ends of a span as part of the link and gives
\* the link text of the leftmost span that holds the position, nothing when
\* no span holds it; a click in the editor hits the same link - over the
\* display spans in read-only mode, over the raw spans in edit mode.
C21_HitTestInclusiveLeftmost ==
    /\ \A position \in 0..(Len(RawDoc) + 1) :
          /\ is_position_in_link(position, find_all_links(RawDoc)) =
                LeftmostHit(position, find_all_links(RawDoc))
          /\ is_position_in_link(position, DisplaySpans(RawDoc)) =
                LeftmostHit(position, DisplaySpans(RawDoc))
    /\ \A position \in 0..Len(text) :
          LinkAt(S, position) =
             IF is_read_only
             THEN LeftmostHit(position, DisplaySpans(original_content))
             ELSE LeftmostHit(position, find_all_links(text))

\* read-only mode again after a look at the raw text: two links of different
\* text, the second starting where the first ends in the display text
C21_Witness ==
    LET spans == DisplaySpans(original_content)
    IN /\ is_read_only
       /\ undo_stack # <<>>
       /\ Len(spans) = 2
       /\ spans[1][2] = spans[2][1]
       /\ spans[1][3] # spans[2][3]

----------------------------------------------------------------------------
(* Properties of link resolution, renames and moves *)

\* the link texts found in the notes of the directory
LinkTextsInNotes ==
    UNION { { find_all_links(files[file_path])[k][3] :
                k \in 1..Len(find_all_links(files[file_path])) } :
            file_path \in DOMAIN files }

RoundTrip(x) == filepath_to_link(link_to_filepath(x))

HasWhitespace(t) == \E k \in 1..Len(t) : t[k] \in Whitespace

\* t trimmed, with each whitespace run collapsed to one space
RECURSIVE CollapseRuns(_)
CollapseRuns(t) ==
    IF t = <<>> THEN <<>>
    ELSE IF Head(t) \in Whitespace THEN <<" ">> \o CollapseRuns(LStrip(t))
    ELSE <<Head(t)>> \o CollapseRuns(Tail(t))

CollapseWhitespace(t) == CollapseRuns(RStrip(LStrip(t)))

\* every '/'-separated segment of x holds a visible character, whitespace
\* occurs in the last segment only, and the last segment has no underscore
PlainSegments(x) ==
    LET parts == SplitSlash(x, <<>>)
    IN /\ \A k \in 1..Len(parts) : \E c \in 1..Len(parts[k]) :
             parts[k][c] \notin Whitespace
       /\ \A k \in 1..(Len(parts) - 1) : ~HasWhitespace(parts[k])
       /\ \A c \in 1..Len(parts[Len(parts)]) : parts[Len(parts)][c] # "_"

\* x with the whitespace runs of its last segment collapsed and trimmed
CollapseLastSegment(x) ==
    LET parts == SplitSlash(x, <<>>)
    IN JoinSlash([parts EXCEPT ![Len(parts)] = CollapseWhitespace(@)])

Resolves(link_text, path) == normpath(link_to_filepath(link_text)) = normpath(path)

\* the content with the span of every match from k down to 1 that resolves to
\* old_path replaced by the link to new_path, and nothing else touched
RECURSIVE SpanRewrite(_, _, _, _, _)
SpanRewrite(content, ms, k, old_path, new_path) ==
    IF k = 0 THEN content
    ELSE SpanRewrite(IF Resolves(ms[k][3], old_path)
                     THEN Slice(content, 0, ms[k][1])
                          \o create_wiki_link(filepath_to_link(new_path))
                          \o Slice(content, ms[k][2], Len(content))
                     ELSE content,
                     ms, k - 1, old_path, new_path)

\* the renames the dialog can ask for in this state: <<old_path, new_path>>
RenamesOffered ==
    { <<item_path, rename_note(S, item_path, new_name, "ok").new_path>> :
        <<item_path, new_name>> \in
            { c \in (DOMAIN files) \X NewNames :
                rename_note(S, c[1], c[2], "ok").success } }

\* the moves a drop can ask for in this state: <<old_path, new_path>>
MovesOffered ==
    { <<source_path, move_note(S, source_path, target_dir, "ok").new_path>> :
        <<source_path, target_dir>> \in
            { c \in (DOMAIN files) \X Directories(files) :
                move_note(S, c[1], c[2], "ok").success } }

\* C23: on a rename or move, the rewrite of a note's content replaces the
\* span of every link that resolves to the old path by the link to the new
\* path and leaves every other character as it was, links to other paths
\* included
C23_RewriteTouchesOnlyLinksToOldPath ==
    \A mv \in RenamesOffered \cup MovesOffered : \A file_path \in DOMAIN files :
        update_link_references(files[file_path], mv[1], mv[2])
            = SpanRewrite(files[file_path], find_all_links(files[file_path]),
                          Len(find_all_links(files[file_path])), mv[1], mv[2])

\* the content holds a link that resolves to the path
HasLinkTo(content, path) ==
    \E k \in 1..Len(find_all_links(content)) :
        Resolves(find_all_links(content)[k][3], path)

\* C24: the scan of a rename or move writes a note only when the rewrite
\* changed its content: a note with no link that resolves to the old path is
\* not written and keeps its content, and every note written has changed
C24_ScanWritesOnlyChangedNotes ==
    \A mv \in RenamesOffered \cup MovesOffered :
        LET moved   == [S EXCEPT !.files = Moved(@, mv[1], mv[2])]
            scanned == update_all_links(moved, mv[1], mv[2])
        IN /\ \A file_path \in DOMAIN moved.files :
                 ~HasLinkTo(moved.files[file_path], mv[1]) =>
                     /\ file_path \notin scanned.hist.written
                     /\ scanned.files[file_path] = moved.files[file_path]
           /\ \A file_path \in scanned.hist.written :
                 scanned.files[file_path] # moved.files[file_path]
           /\ DOMAIN scanned.files = DOMAIN moved.files

\* a rename or drop has rewritten one note and left another alone
C24_Witness ==
    /\ hist.moved # <<>>
    /\ hist.written # {}
    /\ \E file_path \in DOMAIN files :
          /\ file_path \notin hist.written
          /\ ~HasLinkTo(files[file_path], hist.moved[1])

\* C25: after a rename or move that rewrote links, the rewritten links point
\* at the new path: the link text derived from the new path resolves to the new path again
C25_RewrittenLinkResolvesToNewPath ==
    hist.moved # <<>> /\ hist.written # {} =>
        link_to_filepath(filepath_to_link(hist.moved[2])) = hist.moved[2]

\* C38: for every link text L of a note whose target is missing,
\* create_note_from_link(L) creates exactly the file at link_to_filepath(L),
\* the path the click handler then tests and looks up in the tree; link
\* texts that end in '.md' and link texts with '/' are no exception
C38_NoteCreatedAtResolvedPath ==
    \A link_text \in LinkTextsInNotes :
        link_to_filepath(link_text) \notin DOMAIN files =>
            DOMAIN create_note_from_link(S, link_text).files
                = DOMAIN files \cup {link_to_filepath(link_text)}

\* C31: once a rename or move of a note has succeeded, the links to its old
\* path are rewritten in every stored note, the note open in the editor
\* included, and they stay rewritten through every later auto-save, mode
\* toggle and file switch: no stored note holds a link to the old path again
\* (the user types no link in these runs)
C31_RewrittenLinkSurvivesSaves ==
    hist.moved # <<>> =>
        \A file_path \in DOMAIN files : ~HasLinkTo(files[file_path], hist.moved[1])

\* C37: current_file is unset or is the path of a note that exists outside
\* the trash: deleting, renaming or moving the open note, and renaming a
\* directory above it, clear current_file or set it to the note's new path
C37_CurrentFileIsAnExistingNote ==
    current_file # None =>
        /\ current_file \in DOMAIN files
        /\ ~is_in_trash(current_file)

\* C40: a move never destroys another note: when the target directory holds
\* a file of the note's name, be it another note or the note itself (a move
\* to where it is), move_note gives (False, None) and every file keeps its
\* content, and so does a drop on the tree
C40_MoveNeverDestroysANote ==
    \A source_path \in DOMAIN files : \A target_dir \in Directories(files) :
        JoinPath(<<target_dir, basename(source_path)>>) \in DOMAIN files =>
            /\ ~move_note(S, source_path, target_dir, "ok").success
            /\ move_note(S, source_path, target_dir, "ok").new_path = None
            /\ move_note(S, source_path, target_dir, "ok").s.files = files
            /\ tree_drop_event(S, source_path, target_dir, "ok").files = files

\* the content save_current_file writes for the open note
ContentToSave == IF is_read_only THEN original_content ELSE text

\* C26: activating a link L saves the current note, creates an empty note at
\* link_to_filepath(L) when there is none, leaves the content of the note
\* that is there otherwise, and opens the note at link_to_filepath(L)
C26_ActivatedLinkOpensItsNote ==
    \A position \in 0..Len(text) :
        LinkAt(S, position) # <<>> =>
            LET link_text == LinkAt(S, position)[1]
                file_path == link_to_filepath(link_text)
                r         == mousePressEvent(S, position, "ok", "ok")
            IN /\ file_path \in DOMAIN r.files
               /\ file_path \notin DOMAIN files => r.files[file_path] = <<>>
               /\ file_path \in DOMAIN files /\ file_path # current_file =>
                     r.files[file_path] = files[file_path]
               /\ current_file # None =>
                     /\ current_file \in r.hist.written
                     /\ r.files[current_file] = ContentToSave
               /\ r.current_file = file_path

----------------------------------------------------------------------------
(* Properties of the journal and of auto-save *)

\* n as two decimal digits
TwoDigits(n) == Digits(n \div 10) \o Digits(n % 10)

\* C27: create_journal_entry is idempotent.  The first call for a date
\* creates .journal/YYYY/MM/DD.md, month and day zero-padded, holding
\* '# <Weekday> <D><suffix> <Month> <YYYY>' and two newlines; a call for a date
\* whose entry exists, edited or not, returns the same path and writes nothing
C27_JournalEntryIdempotent ==
    \A today \in Dates :
        LET first  == create_journal_entry(S, today)
            second == create_journal_entry(first.s, today)
            path   == first.journal_file
        IN /\ path = JournalDir \o <<"/">> \o Digits(today.year) \o <<"/">>
                     \o TwoDigits(today.month) \o <<"/">>
                     \o TwoDigits(today.day) \o MdExt
           /\ path \notin DOMAIN files =>
                 /\ first.s.files[path] =
                        <<"#", " ">> \o WeekdayNames[Weekday(today) + 1] \o <<" ">>
                        \o Digits(today.day) \o get_ordinal_suffix(today.day)
                        \o <<" ">> \o MonthNames[today.month] \o <<" ">>
                        \o Digits(today.year) \o <<"\n", "\n">>
                 /\ \A file_path \in DOMAIN files :
                       first.s.files[file_path] = files[file_path]
           /\ path \in DOMAIN files =>
                 /\ first.s.files = files
                 /\ first.s.hist.written = {}
           /\ second.journal_file = path
           /\ second.s = first.s

\* an entry that was edited and saved is there when the journal is asked for
\* its date again
C27_Witness ==
    \E today \in Dates :
        /\ journal_file_of(today) \in DOMAIN files
        /\ files[journal_file_of(today)] # create_journal_header(today)
        /\ files[journal_file_of(today)] # <<>>

\* C28: an auto-save tick writes only when a note is open, only to the path
\* of the open note, and what save_current_file writes at that moment; with
\* no open note it writes nothing
C28_AutoSaveWritesOpenNoteOnly ==
    \A io \in SaveOutcomes :
        LET r == auto_save(S, io)
        IN /\ current_file = None =>
                 /\ r.files = files
                 /\ r.hist.written = {}
           /\ current_file # None =>
                 /\ r.hist.written \subseteq {current_file}
                 /\ \A file_path \in DOMAIN files \ {current_file} :
                       r.files[file_path] = files[file_path]
                 /\ DOMAIN r.files = DOMAIN files \cup {current_file}
                 /\ io = "ok" => r.files[current_file] = ContentToSave
           /\ r.files = save_current_file(S, io).files

\* an auto-save has written the edited text of the open note
C28_Witness ==
    /\ current_file # None
    /\ ~is_read_only
    /\ hist.written = {current_file}
    /\ files[current_file] = text
    /\ Len(text) < CreatedLen

\* the suffix the claim gives for day d
ClaimedSuffix(d) ==
    IF d \in {11, 12, 13} THEN <<"t", "h">>
    ELSE IF d % 10 = 1 THEN <<"s", "t">>
    ELSE IF d % 10 = 2 THEN <<"n", "d">>
    ELSE IF d % 10 = 3 THEN <<"r", "d">>
    ELSE <<"t", "h">>

\* C30: get_ordinal_suffix gives 'th' for 11, 12 and 13, otherwise 'st', 'nd'
\* and 'rd' for the days that end in 1, 2 and 3, and 'th' for the others, for
\* every day 1..31; the header of a new journal entry has the suffix right
\* behind the unpadded day number
C30_OrdinalSuffix ==
    /\ \A d \in 1..31 : get_ordinal_suffix(d) = ClaimedSuffix(d)
    /\ \A today \in Dates :
          LET header == create_journal_entry(
                            [S EXCEPT !.files = << >>], today).s.files[
                                journal_file_of(today)]
              at     == 2 + Len(WeekdayNames[Weekday(today) + 1]) + 1
              shown  == Digits(today.day) \o ClaimedSuffix(today.day)
          IN /\ Slice(header, at, at + Len(shown)) = shown
             /\ Char(header, at - 1) = " "
             /\ Char(header, at + Len(shown)) = " "
             /\ journal_file_of(today) \in DOMAIN files
                /\ Len(files[journal_file_of(today)]) = Len(header)
                => files[journal_file_of(today)] = header

\* the entry of an 11th, 12th or 13th is open, as it was created
C30_Witness ==
    \E today \in Dates :
        /\ today.day \in {11, 12, 13}
        /\ current_file = journal_file_of(today)
        /\ files[current_file] = create_journal_header(today)

----------------------------------------------------------------------------
(* Properties of the formatted LLM response *)

\* the ranges the classification recorded
CalloutRanges == { callout_blocks[b] : b \in DOMAIN callout_blocks }

AiRanges == { ai_response_blocks[b] : b \in DOMAIN ai_response_blocks }

\* the lines of the document from block first to block last
BlockLines(first, last) == [k \in 1..(last - first + 1) |-> blocks[first + k]]

\* the non-empty lines of the text outside the wrapper, and the lines of the
\* text inside it
OutsideLines ==
    SelectSeq(SplitLines(Strip(hist.response.before \o hist.response.after), <<>>),
              LAMBDA line : Strip(line) # <<>>)

InsideLines ==
    SplitLines(Strip(IF hist.response.wrapped THEN hist.response.inside
                     ELSE hist.response.before), <<>>)

HasQuoteLine(lines) ==
    \E k \in 1..Len(lines) : StartsWith(Strip(lines[k]), <<">">>)

\* one callout, headed '> thinking...', folded unless the user toggled it,
\* that holds the outside lines behind '> '
OneThinkingCallout ==
    \E c \in CalloutRanges :
        /\ CalloutRanges = {c}
        /\ blocks[c.start + 1] = THINKING_HEADER
        /\ c.start \in folded_callouts \cup manually_toggled_callouts
        /\ BlockLines(c.start + 1, c.end)
              = [k \in 1..Len(OutsideLines) |-> <<">", " ">> \o OutsideLines[k]]

\* one AI-response region: the START sentinel, the inside lines, the END
\* sentinel, each sentinel on a line of its own
OneAiRegion ==
    \E a \in AiRanges :
        /\ AiRanges = {a}
        /\ blocks[a.start + 1] = START_MARKER
        /\ blocks[a.end + 1] = END_MARKER
        /\ BlockLines(a.start + 1, a.end - 1) = InsideLines

TypeOK ==
    /\ cursor \in 0..Len(text)
    /\ is_undoing \in BOOLEAN
    /\ is_read_only \in BOOLEAN
    /\ DOMAIN files # {}

====
